---- MODULE Spec2Model ----
(***************************************************************************)
(* Timeline-synchronisation engine of the video-editor plugin              *)
(* (src/davinci-plugin/concepto_resolve_sync_gui.py).                      *)
(*                                                                         *)
(* Times are integers in milliseconds (the code uses float seconds); frame *)
(* rates are rationals <<num, den>>; frame numbers are integers.           *)
(***************************************************************************)
EXTENDS Integers, Sequences, FiniteSets, TLC

VARIABLES
    \* ---- episode data as received from the service
    gui,            \* which front end runs: "pyside" (MainWindow) or "tk" (MainWindowTk)
    shots,          \* seg["shots"]: the raw, unsorted shot array
    overrides,      \* avPreviewData.videoClipStartTimes: clip identity -> start (ms)
    \* ---- _compute_visual_start_times, one loop iteration per step
    r_idx,          \* enumerate() index of the next shot (0-based)
    current_end,    \* the cursor (current_end / current)
    start_times,    \* the result dict: clip identity -> start (ms)
    \* ---- resolve_place_on_timeline, one call
    p_in,           \* the call's arguments and what the host reports
    p_pc,           \* position in the function
    p_fr,           \* record_frame, start_frame, end_frame, duration_frames
    p_host,         \* which host methods _method() finds and which calls work
    p_attempt,      \* `attempt` of the descriptor-dict loop (0..3)
    p_calls,        \* the placement primitives invoked so far, in order
    p_before,       \* items on the target track just before the last primitive ran
    p_won,          \* the first primitive that reported success and added the item
    p_late,         \* a primitive was invoked after p_won was set
    trackN,         \* items on the target track (track_type, track_index)
    otherN,         \* items on every other track of the timeline
    \* ---- MainWindow.on_download_build.worker
    b_pc,           \* position in the worker
    b_sorted,       \* sorted_shots, as raw indices (0-based)
    b_i,            \* enumerate() index over sorted_shots (0-based)
    b_local,        \* local_files of the shot being processed
    b_imported,     \* the shot's imported media-pool items (their number)
    b_item,         \* main_item was found
    b_queue,        \* placeholders_to_create, with the clip identity looked up
    b_log,          \* outcome lines written by self._log: <<what, raw index>>
    b_raised,       \* raw indices whose resolve_place_on_timeline call raised
    b_subs,         \* the subtitle files the host imported into the timeline
    tl_items,       \* the items on video track 1, in the order they were added
    \* ---- the subtitle codec: one entry written, placed by the host, read back
    c_pc,           \* position in the round trip
    c_in,           \* what goes in: times, frame rate, start timecode, or text
    c_out,          \* what has been produced so far
    \* ---- MainWindow.on_sync.worker (Push)
    u_pc,           \* position in the worker
    u_cfg,          \* the timeline's frame rate and start timecode
    u_video,        \* the items of the video tracks, in scan order
    u_subtitle,     \* the items of the subtitle tracks (their text), in scan order
    u_k,            \* items of the current scan already handled
    u_start_times,  \* updated_start_times
    u_shots,        \* updated_shots
    u_calls,        \* the service calls made, in order
    u_log,          \* outcome lines written by self._log
    \* ---- MainWindow.on_sync_from_concepto.worker (Pull), asset refresh
    l_pc,           \* position in the worker
    l_items,        \* the matched timeline items, in scan order
    l_k,            \* items already handled
    l_done,         \* per handled item: what the refresh did
    \* ---- the window's action buttons and the worker threads they start
    w_enabled,      \* operation -> its button is enabled
    w_started,      \* operation -> threads started whose worker() has not begun
    w_running,      \* operation -> threads inside worker()
    \* ---- the download loop of Build for one shot, over several Builds
    d_pc,           \* position in the loop
    d_assets,       \* assets: the destination file name of each (url, filename)
    d_k,            \* assets already handled in this Build
    d_disk,         \* the destination files that exist in take_dir
    d_partial,      \* those of them a download left unfinished
    d_at_start,     \* d_disk when this Build began
    d_local,        \* local_files
    d_downloads,    \* the _download_file calls of this Build: the destination, and
                    \* whether it existed when the call was made
    d_run,          \* how many Builds have begun
    \* ---- the media pool's folder tree and the resolve_ensure_bins calls
    f_folders,      \* the folders below the root folder: id, parent, name
    f_calls,        \* the calls made: arguments and what came back
    \* ---- the opening statements of a Build, Push or Pull worker
    q_op,           \* which worker runs
    q_env,          \* what the worker will find: episode loaded, project open, ...
    q_pc,           \* the next statement, or "go" / "aborted"
    q_failed,       \* the precondition that raised
    q_effects,      \* what the worker has changed so far
    \* ---- Build: the choice of a shot's main file
    m_in,           \* has_video, has_image and local_files
    m_out,          \* main_file and the step that set it
    \* ---- Build: the AV-Preview audio tracks
    a_in,           \* the service's audio tracks and their clips
    a_out,          \* the placements requested so far
    a_pc,           \* position in the audio section
    a_t,            \* t_idx, the enumerate() index of the service track
    a_c,            \* clips of that track already handled
    a_host,         \* audio tracks the timeline has, and whether AddTrack works
    \* ---- ConceptoAPIClient._make_request (3D-tool client)
    h_in,           \* the method asked for and what the transport does
    h_out,          \* the result dict returned
    \* ---- ConceptoClient.import_av_script
    v_in,           \* how each endpoint answers
    v_out,          \* the requests made and how the call ended
    \* ---- MainWindow.on_sync_from_concepto.worker (Pull), the item moves
    g_pc,           \* position in the worker
    g_cfg,          \* the timeline's frame rate and start timecode
    g_times,        \* video_clip_start_times: clip identity -> seconds
    g_host,         \* what the host offers and whether it honours every call
    g_items,        \* `items` of the track as read when the scan began
    g_track,        \* the items the track holds now
    g_k,            \* items of g_items already handled
    g_cur,          \* the item being handled: `moved`, and whether new_mp_item is set
    g_calls,        \* the host calls of this Pull that change the timeline
    g_log,          \* outcome lines written by self._log
    g_run           \* how many Pulls have begun

episodeVars  == <<gui, shots, overrides>>
resolverVars == <<r_idx, current_end, start_times>>
ladderVars   == <<p_host, p_attempt, p_calls, p_before, p_won, p_late, trackN, otherN>>
placeVars    == <<p_in, p_pc, p_fr, ladderVars>>
buildVars    == <<b_pc, b_sorted, b_i, b_local, b_imported, b_item, b_queue,
                 b_log, b_raised, b_subs, tl_items>>
codecVars    == <<c_pc, c_in, c_out>>
pushVars     == <<u_pc, u_cfg, u_video, u_subtitle, u_k, u_start_times, u_shots,
                 u_calls, u_log>>
pullVars     == <<l_pc, l_items, l_k, l_done>>
workerVars   == <<w_enabled, w_started, w_running>>
cacheVars    == <<d_pc, d_assets, d_k, d_disk, d_partial, d_at_start, d_local,
                  d_downloads, d_run>>
binVars      == <<f_folders, f_calls>>
openingVars  == <<q_op, q_env, q_pc, q_failed, q_effects>>
selVars      == <<m_in, m_out>>
audioVars    == <<a_in, a_out, a_pc, a_t, a_c, a_host>>
clientVars   == <<h_in, h_out>>
importVars   == <<v_in, v_out>>
moveVars     == <<g_pc, g_cfg, g_times, g_host, g_items, g_track, g_k, g_cur,
                 g_calls, g_log, g_run>>
tailVars     == <<moveVars>>
lateVars     == <<selVars, audioVars, clientVars, importVars, tailVars>>
moreVars     == <<workerVars, cacheVars, binVars, openingVars, lateVars>>
syncVars     == <<pushVars, pullVars, moreVars>>
vars == <<episodeVars, resolverVars, placeVars, buildVars, codecVars, syncVars>>

\* ------------------------------------------------------------------ bounds
MaxShots == 3
MaxBuildShots == 3
MaxThreads == 3
MaxAssets == 3
MaxRuns == 3
MaxBinCalls == 3
MaxAudioTracks == 3
MaxAudioClips == 2
MaxPullRuns == 2
MaxMoveShots == 2
MaxMoveItems == 2

\* ----------------------------------------------------------------- helpers
Max(a, b) == IF a >= b THEN a ELSE b
Min(a, b) == IF a <= b THEN a ELSE b

\* the id of the selected segment (seg.get('id'))
SegId == "seg"

\* f"{seg.get('id')}-{shot.get('id')}-{idx}"
ClipId(segId, shotId, idx) == <<segId, shotId, idx>>

\* float(shot.get("duration") or 0): a missing (<<>>) or zero duration is 0
RawDuration(shot) == IF shot.duration = <<>> THEN 0 ELSE shot.duration[1]

\* the empty dict
EmptyMap == [x \in {} |-> 0]

\* ------------------------------------------------------ Start-Time Resolver
\* start = overrides[clip_id] if clip_id in overrides else current_end
ResolvedStart(ovr, clip, cursor) ==
    IF clip \in DOMAIN ovr THEN ovr[clip] ELSE cursor

\* the cursor advanced the way MainWindowTk does it
PySideAdvance_AddAfterMax(cursor, start, dur) == Max(cursor, start) + dur

\* MainWindow: current_end = max(current_end, start + duration)
PySideAdvance(cursor, start, dur) == Max(cursor, start + dur)

\* MainWindowTk: current = max(current, start) + duration
TkAdvance(cursor, start, dur) == Max(cursor, start) + dur

Advance(g, cursor, start, dur) ==
    IF g = "tk" THEN TkAdvance(cursor, start, dur)
                ELSE PySideAdvance(cursor, start, dur)

\* one iteration of `for idx, shot in enumerate(shots)`
ComputeStep ==
    /\ r_idx < Len(shots)
    /\ LET shot  == shots[r_idx + 1]
           clip  == ClipId(SegId, shot.id, r_idx)
           start == ResolvedStart(overrides, clip, current_end)
       IN  /\ start_times' = [c \in DOMAIN start_times \cup {clip} |->
                                 IF c = clip THEN start ELSE start_times[c]]
           /\ current_end' = Advance(gui, current_end, start, RawDuration(shot))
    /\ r_idx' = r_idx + 1
    /\ UNCHANGED <<episodeVars, placeVars, codecVars, syncVars>>
    /\ UNCHANGED <<b_sorted, b_i, b_local, b_imported, b_item, b_queue, b_log,
                   b_raised, b_subs, tl_items>>
    /\ b_pc \in {"idle", "resolve"}
    /\ b_pc' = b_pc

ResolverIdle ==
    /\ r_idx = 0
    /\ current_end = 0
    /\ start_times = EmptyMap

\* ------------------------------------------- Placement Engine: frame maths
Abs(x) == IF x < 0 THEN -x ELSE x

\* Python round() of the rational p/q (q > 0): to nearest, ties to even
RoundHalfEven(p, q) ==
    LET f == p \div q
        r == p % q
    IN  IF 2 * r < q THEN f
        ELSE IF 2 * r > q THEN f + 1
        ELSE IF f % 2 = 0 THEN f ELSE f + 1

\* int() of the rational p/q (q > 0): truncation toward zero
IntTrunc(p, q) == IF p >= 0 THEN p \div q ELSE -((-p) \div q)

\* int(seconds * fps) without round()
SecondsToFrames_Truncate(ms, fps) == IntTrunc(ms * fps[1], 1000 * fps[2])

\* int(round(seconds * fps))
SecondsToFrames(ms, fps) == RoundHalfEven(ms * fps[1], 1000 * fps[2])

\* int(fps) and int(fps * 3)
IntFps(fps)  == IntTrunc(fps[1], fps[2])
IntFps3(fps) == IntTrunc(3 * fps[1], fps[2])

\* "HH:MM:SS:FF" -> int(round((h*3600 + m*60 + s + f/fps) * fps));
\* <<>> stands for a timecode that is absent or does not parse
TimecodeToFrames(tc, fps) ==
    IF tc = <<>> THEN 0
    ELSE RoundHalfEven((tc[1] * 3600 + tc[2] * 60 + tc[3]) * fps[1] + tc[4] * fps[2],
                       fps[2])

\* item.GetClipProperty(["Duration"]) parsed to frames; 0 when it is unknown
\* ("none": no property; "tc": a timecode; "num": a number, seconds below
\* 1000 and frames from 1000 on)
ClipDurationFrames(prop, fps) ==
    IF prop.kind = "tc" THEN TimecodeToFrames(prop.tc, fps)
    ELSE IF prop.kind = "num"
         THEN IF prop.ms < 1000 * 1000 THEN SecondsToFrames(prop.ms, fps)
                                       ELSE IntTrunc(prop.ms, 1000)
    ELSE 0

\* lines 1149-1197: minimum duration, timeline start, the four frame values
\* and the first range check
InitialFrames(in) ==
    LET dur  == IF in.duration < 100 THEN 1000 ELSE in.duration
        tsf  == TimecodeToFrames(in.start_tc, in.fps)
        rec  == Max(0, SecondsToFrames(in.record, in.fps)) + tsf
        st   == Max(0, SecondsToFrames(in.offset, in.fps))
        df   == Max(1, SecondsToFrames(dur, in.fps))
        en   == st + df
    IN  IF en <= st
        THEN [record_frame |-> rec, start_frame |-> st,
              end_frame |-> st + IntFps(in.fps), duration_frames |-> IntFps(in.fps)]
        ELSE [record_frame |-> rec, start_frame |-> st,
              end_frame |-> en, duration_frames |-> df]

\* lines 1228-1239: clamp the trim end to the clip's own length, and repair
\* a range the clamp emptied
ClampToSource(fr, cdf, fps) ==
    IF cdf = 0 THEN fr
    ELSE LET en == IF fr.end_frame > cdf THEN cdf ELSE fr.end_frame
         IN  IF en <= fr.start_frame
             THEN LET en2 == Max(IntFps(fps), Min(cdf, IntFps3(fps)))
                  IN  [fr EXCEPT !.start_frame = 0, !.end_frame = en2,
                                 !.duration_frames = en2]
             ELSE [fr EXCEPT !.end_frame = en]

\* lines 1243-1249: the final validation
FinalValidation(fr, fps) ==
    IF fr.end_frame <= fr.start_frame
    THEN [fr EXCEPT !.start_frame = 0, !.end_frame = IntFps(fps),
                    !.duration_frames = IntFps(fps),
                    !.record_frame = Max(0, fr.record_frame)]
    ELSE fr

\* the frame values with the range repairs left out: the trim end is only
\* clamped to the clip's length
FramesAfter_ClampOnly(stage, in) ==
    LET dur == in.duration
        tsf == TimecodeToFrames(in.start_tc, in.fps)
        st  == Max(0, SecondsToFrames(in.offset, in.fps))
        df  == SecondsToFrames(dur, in.fps)
        cdf == ClipDurationFrames(in.clip_prop, in.fps)
        en  == IF stage >= 2 /\ cdf # 0 /\ st + df > cdf THEN cdf ELSE st + df
    IN  [record_frame |-> Max(0, SecondsToFrames(in.record, in.fps)) + tsf,
         start_frame |-> st, end_frame |-> en, duration_frames |-> df]

\* the frame values after stage 1 (lines 1149-1197), 2 (to 1241), 3 (to 1250)
FramesAfter(stage, in) ==
    LET f1 == InitialFrames(in)
        f2 == ClampToSource(f1, ClipDurationFrames(in.clip_prop, in.fps), in.fps)
    IN  IF stage = 1 THEN f1
        ELSE IF stage = 2 THEN f2
        ELSE FinalValidation(f2, in.fps)

NoFrames == [record_frame |-> 0, start_frame |-> 0, end_frame |-> 0,
             duration_frames |-> 0]

PlaceComputeFrames ==
    /\ p_pc = "entry"
    /\ p_fr' = FramesAfter(1, p_in)
    /\ p_pc' = "frames"
    /\ UNCHANGED <<episodeVars, resolverVars, buildVars, codecVars, syncVars, p_in, ladderVars>>

PlaceClampToSource ==
    /\ p_pc = "frames"
    /\ p_fr' = FramesAfter(2, p_in)
    /\ p_pc' = "clamped"
    /\ UNCHANGED <<episodeVars, resolverVars, buildVars, codecVars, syncVars, p_in, ladderVars>>

PlaceFinalValidation ==
    /\ p_pc = "clamped"
    /\ p_fr' = FramesAfter(3, p_in)
    /\ p_pc' = "final"
    /\ UNCHANGED <<episodeVars, resolverVars, buildVars, codecVars, syncVars, p_in, ladderVars>>

\* --------------------------------------- Placement Engine: fallback ladder
\* what a host primitive answers, and what it does to the timeline
Results == {"raise", "falsy", "list", "truthy"}
Effects == {"none", "target", "other"}

HostBehaviours(results) ==
    {b \in [result : results, effect : Effects] :
        b.result = "raise" => b.effect = "none"}

\* `result is not False and result is not None`
Accepted(result) == result \in {"list", "truthy"}

\* track_count_now(): None unless GetItemListInTrack is there and answers
CountKnown == p_host.get_items

\* `before_n is None or after_n is None or after_n > before_n`
CountIncreased(before, after) == (~CountKnown) \/ after > before

ItemsAfter(n, b, where) == IF b.effect = where THEN n + 1 ELSE n

\* the host runs primitive `name` and answers b
Invoke(name, b) ==
    /\ trackN' = ItemsAfter(trackN, b, "target")
    /\ otherN' = ItemsAfter(otherN, b, "other")
    /\ p_calls' = Append(p_calls, name)
    /\ p_before' = trackN
    /\ p_won' = IF p_won = "" /\ Accepted(b.result) /\ b.effect = "target"
                THEN name ELSE p_won
    /\ p_late' = (p_late \/ p_won # "")

NoInvoke == UNCHANGED <<trackN, otherN, p_calls, p_before, p_won, p_late>>

LadderFrame ==
    UNCHANGED <<episodeVars, resolverVars, buildVars, codecVars, syncVars, p_in, p_fr, p_host>>

\* lines 1252-1272: the primitives are probed
PlaceProbe ==
    /\ p_pc = "final"
    /\ p_pc' = IF ~p_host.mp_append /\ ~p_host.tl_append /\ ~p_host.tl_insert_clips
               THEN "raised" ELSE "a"
    /\ UNCHANGED p_attempt
    /\ NoInvoke
    /\ LadderFrame

NextAttempt ==
    IF p_attempt < 3
    THEN p_pc' = "a" /\ p_attempt' = p_attempt + 1
    ELSE p_pc' = "b" /\ UNCHANGED p_attempt

\* lines 1283-1351: MediaPool.AppendToTimeline([dict]), four dict shapes
PlaceDictAttempt ==
    /\ p_pc = "a"
    /\ \/ /\ ~p_host.mp_append           \* the call itself raises
          /\ NoInvoke
          /\ NextAttempt
       \/ /\ p_host.mp_append
          /\ \E b \in HostBehaviours(Results) :
                /\ Invoke("a", b)
                /\ IF ~Accepted(b.result)
                   THEN NextAttempt
                   ELSE IF CountKnown /\ trackN' <= trackN
                   THEN NextAttempt      \* count did not increase: continue
                   ELSE IF b.result = "list" /\ ~CountKnown
                   THEN NextAttempt      \* the read-back at line 1318 raises
                   ELSE p_pc' = "ok" /\ UNCHANGED p_attempt
    /\ LadderFrame

\* lines 1353-1395: Timeline.InsertClip(file_url, tc_str, track_index)
PlaceInsertClip ==
    /\ p_pc = "b"
    /\ \/ /\ ~(p_host.insert_clip /\ p_host.set_tc /\ p_host.file_url)
          /\ NoInvoke
          /\ p_pc' = "c1"
       \/ /\ p_host.insert_clip /\ p_host.set_tc /\ p_host.file_url
          /\ \E b \in HostBehaviours({"raise", "falsy", "truthy"}) :
                /\ Invoke("b", b)
                /\ p_pc' = IF Accepted(b.result) THEN "ok" ELSE "c1"
    /\ UNCHANGED p_attempt
    /\ LadderFrame

\* lines 1401-1412: Timeline.InsertClips([item], tc_str, track_index)
PlaceInsertClips ==
    /\ p_pc = "c1"
    /\ \/ /\ ~p_host.tl_insert_clips
          /\ NoInvoke
          /\ p_pc' = "c2"
       \/ /\ p_host.tl_insert_clips
          /\ \E b \in HostBehaviours({"raise", "falsy", "truthy"}) :
                /\ Invoke("c", b)
                /\ p_pc' = IF Accepted(b.result) /\ CountIncreased(trackN, trackN')
                           THEN "ok" ELSE "c2"
    /\ UNCHANGED p_attempt
    /\ LadderFrame

\* lines 1414-1428: Timeline.AppendToTimeline([item]) at the playhead
PlaceTimelineAppend ==
    /\ p_pc = "c2"
    /\ \/ /\ ~p_host.tl_append
          /\ NoInvoke
          /\ p_pc' = "d"
       \/ /\ p_host.tl_append
          /\ \E b \in HostBehaviours({"raise", "falsy", "truthy"}) :
                /\ Invoke("c", b)
                /\ p_pc' = IF Accepted(b.result) /\ CountIncreased(trackN, trackN')
                           THEN "ok" ELSE "d"
    /\ UNCHANGED p_attempt
    /\ LadderFrame

\* lines 1430-1470: plain MediaPool.AppendToTimeline([item]), else RuntimeError
PlaceSimpleAppend ==
    /\ p_pc = "d"
    /\ \/ /\ ~p_host.mp_append           \* the call itself raises
          /\ NoInvoke
          /\ p_pc' = "raised"
       \/ /\ p_host.mp_append
          /\ \E b \in HostBehaviours({"raise", "falsy", "truthy"}) :
                /\ Invoke("d", b)
                /\ p_pc' = IF Accepted(b.result) /\ CountIncreased(trackN, trackN')
                           THEN "ok" ELSE "raised"
    /\ UNCHANGED p_attempt
    /\ LadderFrame

HostCapabilities ==
    [mp_append : BOOLEAN, tl_append : BOOLEAN, tl_insert_clips : BOOLEAN,
     insert_clip : BOOLEAN, set_tc : BOOLEAN, file_url : BOOLEAN,
     get_items : BOOLEAN]

NoHost ==
    [mp_append |-> FALSE, tl_append |-> FALSE, tl_insert_clips |-> FALSE,
     insert_clip |-> FALSE, set_tc |-> FALSE, file_url |-> FALSE,
     get_items |-> FALSE]

LadderIdle ==
    /\ p_host = NoHost
    /\ p_attempt = 0
    /\ p_calls = <<>>
    /\ p_before = 0
    /\ p_won = ""
    /\ p_late = FALSE
    /\ trackN = 0
    /\ otherN = 0

\* ----------------------------------------------------- Build (the worker)
BuildFps     == <<24, 1>>           \* timeline.GetSetting("timelineFrameRate")
BuildStartTc == <<1, 0, 0, 0>>      \* timeline.GetStartTimecode()

\* (float(order or 0), float(shotNumber or 0)) of the shot at raw index k
RowKeyLess(arr, a, b) ==
    \/ arr[a + 1].order < arr[b + 1].order
    \/ /\ arr[a + 1].order = arr[b + 1].order
       /\ arr[a + 1].shotNumber < arr[b + 1].shotNumber

\* the shots left in the order of the raw array
SortedShots_RawOrder(arr) == [i \in 1..Len(arr) |-> i - 1]

\* sorted(shots_raw, key=...): a stable sort, given as raw indices
SortedShots(arr) ==
    CHOOSE p \in [1..Len(arr) -> 0..(Len(arr) - 1)] :
        /\ \A i, j \in 1..Len(arr) : i # j => p[i] # p[j]
        /\ \A i, j \in 1..Len(arr) :
              i < j => \/ RowKeyLess(arr, p[i], p[j])
                       \/ (~RowKeyLess(arr, p[j], p[i]) /\ p[i] < p[j])

\* the shot the loop is at, and its raw index
CurRaw  == b_sorted[b_i + 1]
CurShot == shots[CurRaw + 1]

\* dur_sec: `if dur_sec <= 0: dur_sec = 3.0`
PlacedDuration(shot) == IF RawDuration(shot) <= 0 THEN 3000 ELSE RawDuration(shot)

\* the index Build puts into the clip identity: enumerate(sorted_shots)
BuildClipIndex(sortedIdx, rawIdx) == sortedIdx

\* clip_id = f"{seg.get('id')}-{shot.get('id')}-{idx}" inside the shot loop
BuildClipId == ClipId(SegId, CurShot.id, BuildClipIndex(b_i, CurRaw))

\* float(start_times.get(clip_id, 0.0))
LookupStart(clip) == IF clip \in DOMAIN start_times THEN start_times[clip] ELSE 0

Log(what) == b_log' = Append(b_log, <<what, CurRaw>>)

BuildFrame == UNCHANGED <<episodeVars, resolverVars, placeVars, codecVars, syncVars>>

\* everything of the worker that only the placement step touches
NoPlacement == UNCHANGED <<b_raised, tl_items>>

\* the end of one iteration: the next shot, or the steps after the loop
NextShotPc == IF b_i + 1 < Len(b_sorted) THEN "download" ELSE "subtitles"

\* line 1918: the resolver has run over the raw array; the shots are sorted
BuildSort ==
    /\ b_pc = "resolve"
    /\ r_idx = Len(shots)
    /\ b_sorted' = SortedShots(shots)
    /\ b_pc' = "download"
    /\ UNCHANGED <<b_i, b_local, b_imported, b_item, b_queue, b_log, b_subs>>
    /\ NoPlacement
    /\ BuildFrame

\* lines 1925-1944: each asset is downloaded; a failure is logged and skipped
BuildDownload ==
    /\ b_pc = "download"
    /\ \/ /\ CurShot.main = "none"
          /\ b_local' = {}
          /\ UNCHANGED b_log
       \/ /\ CurShot.main # "none"
          /\ \/ b_local' = {"main"} /\ UNCHANGED b_log
             \/ b_local' = {} /\ Log("download_failed")
    /\ b_pc' = "bins"
    /\ UNCHANGED <<b_sorted, b_i, b_imported, b_item, b_queue, b_subs>>
    /\ NoPlacement
    /\ BuildFrame

\* the error leaves the loop and nothing is logged
Escapes_Silent == b_pc' = "error" /\ UNCHANGED b_log

\* the error leaves the shot's iteration and the loop: the worker's handler
\* at lines 2489-2490 logs it
Escapes == b_pc' = "error" /\ Log("ERROR")

\* line 1948: resolve_ensure_bins, outside any try of the loop
BuildEnsureBins ==
    /\ b_pc = "bins"
    /\ \/ b_pc' = "import" /\ UNCHANGED b_log
       \/ Escapes
    /\ UNCHANGED <<b_sorted, b_i, b_local, b_imported, b_item, b_queue, b_subs>>
    /\ NoPlacement
    /\ BuildFrame

\* lines 1949-1950: resolve_import_files, outside any try of the loop
BuildImport ==
    /\ b_pc = "import"
    /\ \/ /\ b_imported' \in {0, Cardinality(b_local)}
          /\ b_pc' = "queue"
          /\ UNCHANGED b_log
       \/ /\ Escapes
          /\ UNCHANGED b_imported
    /\ UNCHANGED <<b_sorted, b_i, b_local, b_item, b_queue, b_subs>>
    /\ NoPlacement
    /\ BuildFrame

\* lines 1952-1973: the subtitle entry is queued; a shot without main asset
\* is a placeholder only
BuildQueueSubtitle ==
    /\ b_pc = "queue"
    /\ b_queue' = Append(b_queue,
          [raw |-> CurRaw, clip |-> BuildClipId,
           found |-> BuildClipId \in DOMAIN start_times,
           start |-> LookupStart(BuildClipId),
           duration |-> PlacedDuration(CurShot)])
    /\ IF CurShot.main = "none"
       THEN /\ Log("placeholder")
            /\ b_pc' = NextShotPc
            /\ b_i' = IF b_i + 1 < Len(b_sorted) THEN b_i + 1 ELSE b_i
       ELSE /\ UNCHANGED <<b_log, b_i>>
            /\ b_pc' = "find"
    /\ UNCHANGED <<b_sorted, b_local, b_imported, b_item, b_subs>>
    /\ NoPlacement
    /\ BuildFrame

\* lines 1975-2046: the main file and its media-pool item are looked up;
\* take_folder.GetClipList() is called outside any try of the loop
BuildFindMainItem ==
    /\ b_pc = "find"
    /\ \/ /\ b_imported > 0 \/ b_local # {}  \* imported[0], or a clip by name
          /\ b_item' = TRUE
          /\ b_pc' = "place"
          /\ UNCHANGED <<b_log, b_i>>
       \/ /\ b_imported = 0
          /\ b_item' = FALSE
          /\ Log("no_item")
          /\ b_pc' = NextShotPc
          /\ b_i' = IF b_i + 1 < Len(b_sorted) THEN b_i + 1 ELSE b_i
       \/ /\ b_local # {}              \* GetClipList() raises
          /\ Escapes
          /\ UNCHANGED <<b_item, b_i>>
    /\ UNCHANGED <<b_sorted, b_local, b_imported, b_queue, b_subs>>
    /\ NoPlacement
    /\ BuildFrame

\* timeline.GetItemListInTrack("video", 1): the items in timeline order
FirstOverlap(items, from, to) ==
    LET hits == {k \in 1..Len(items) :
                    ~(to <= items[k].start \/ from >= items[k].end)}
    IN  IF hits = {} THEN 0
        ELSE CHOOSE k \in hits :
                \A m \in hits : \/ items[k].start < items[m].start
                                \/ (items[k].start = items[m].start /\ k <= m)

\* lines 2048-2146: the frames Build asks for, moved behind the first
\* overlapped clip
TargetStartFrame ==
    LET tsf  == TimecodeToFrames(BuildStartTc, BuildFps)
        from == SecondsToFrames(LookupStart(BuildClipId), BuildFps) + tsf
        to   == from + SecondsToFrames(PlacedDuration(CurShot), BuildFps)
        hit  == FirstOverlap(tl_items, from, to)
    IN  IF hit = 0 THEN from ELSE tl_items[hit].end

\* the item resolve_place_on_timeline asks the host for
RequestedItem ==
    LET tsf == TimecodeToFrames(BuildStartTc, BuildFps)
        rel == TargetStartFrame - tsf
        fr  == FramesAfter(3, [record |-> (rel * 1000 * BuildFps[2]) \div BuildFps[1],
                               duration |-> PlacedDuration(CurShot), offset |-> 0,
                               fps |-> BuildFps, start_tc |-> BuildStartTc,
                               clip_prop |-> [kind |-> "none", tc |-> <<>>, ms |-> 0]])
    IN  [shot |-> CurRaw, start |-> fr.record_frame,
         end |-> fr.record_frame + (fr.end_frame - fr.start_frame)]

\* the failure handled as if the call were outside any try: it ends the loop
BuildPlaceFailed_Escapes ==
    /\ Escapes
    /\ tl_items' \in {tl_items, Append(tl_items, RequestedItem)}

\* lines 2156-2159: resolve_place_on_timeline raised; the failure is logged
\* and the iteration goes on (a primitive that failed may still have left an item)
BuildPlaceFailed ==
    /\ Log("place_failed")
    /\ b_pc' = "verify"
    /\ tl_items' \in {tl_items, Append(tl_items, RequestedItem)}

\* lines 2148-2155: resolve_place_on_timeline returned (with or without an
\* item on the track, see C7)
BuildPlaceReturned ==
    /\ Log("placed")
    /\ b_pc' = "verify"
    /\ tl_items' \in {tl_items, Append(tl_items, RequestedItem)}

BuildPlace ==
    /\ b_pc = "place"
    /\ \/ BuildPlaceReturned /\ UNCHANGED b_raised
       \/ BuildPlaceFailed /\ b_raised' = b_raised \cup {CurRaw}
    /\ UNCHANGED <<b_sorted, b_i, b_local, b_imported, b_item, b_queue, b_subs>>
    /\ BuildFrame

\* lines 2161-2214: the read-back by name, and the marker
BuildVerify ==
    /\ b_pc = "verify"
    /\ IF \E k \in 1..Len(tl_items) : tl_items[k].shot = CurRaw
       THEN Log("verified")
       ELSE Log("not_visible")
    /\ b_pc' = NextShotPc
    /\ b_i' = IF b_i + 1 < Len(b_sorted) THEN b_i + 1 ELSE b_i
    /\ UNCHANGED <<b_sorted, b_local, b_imported, b_item, b_queue, b_subs>>
    /\ NoPlacement
    /\ BuildFrame

\* to_srt_time: the fields HH, MM, SS, mmm of a time given in milliseconds
ToSrtTime(ms) ==
    <<ms \div 3600000, (ms % 3600000) \div 60000, (ms % 60000) \div 1000, ms % 1000>>

\* tl_start_sec of lines 2269-2279, in milliseconds (int() of the fraction)
TimelineStartMs(tc, fps) ==
    IF tc = <<>> THEN 0
    ELSE (tc[1] * 3600 + tc[2] * 60 + tc[3]) * 1000
         + (tc[4] * 1000 * fps[2]) \div fps[1]

\* srt_lines: one entry per element of placeholders_to_create, its times
\* shifted by `offset` milliseconds
SrtEntries(queue, offset) ==
    [k \in 1..Len(queue) |->
        [raw |-> queue[k].raw,
         from |-> ToSrtTime(queue[k].start + offset),
         to   |-> ToSrtTime(queue[k].start + queue[k].duration + offset)]]

\* lines 2217-2261: the first block writes the file with the relative times
SrtFirstBlock  == SrtEntries(b_queue, 0)

\* lines 2264-2336: the second block adds the timeline's start offset
SrtSecondBlock == SrtEntries(b_queue, TimelineStartMs(BuildStartTc, BuildFps))

\* lines 2216-2336: the subtitle file is written and handed to
\* timeline.ImportIntoTimeline by each of the two blocks; each block catches
\* its own errors, and the host imports the file or does not
BuildSubtitles ==
    /\ b_pc = "subtitles"
    /\ \E first, second \in BOOLEAN :
          b_subs' = (IF first THEN <<SrtFirstBlock>> ELSE <<>>)
                    \o (IF second THEN <<SrtSecondBlock>> ELSE <<>>)
    /\ b_pc' = "audio"
    /\ UNCHANGED <<b_sorted, b_i, b_local, b_imported, b_item, b_queue, b_log>>
    /\ NoPlacement
    /\ BuildFrame

\* lines 2338-2488: the audio tracks (errors caught), then the completion line
BuildAudio ==
    /\ b_pc = "audio"
    /\ b_pc' = "done"
    /\ b_log' = Append(b_log, <<"Done", -1>>)
    /\ UNCHANGED <<b_sorted, b_i, b_local, b_imported, b_item, b_queue, b_subs>>
    /\ NoPlacement
    /\ BuildFrame

BuildIdle ==
    /\ b_pc = "idle"
    /\ b_sorted = <<>>
    /\ b_i = 0
    /\ b_local = {}
    /\ b_imported = 0
    /\ b_item = FALSE
    /\ b_queue = <<>>
    /\ b_log = <<>>
    /\ b_raised = {}
    /\ b_subs = <<>>
    /\ tl_items = <<>>

\* ------------------------------------------------------ subtitle codec
\* the whole seconds of a timecode <<h, m, s, f>>
TcWholeSeconds(tc) == IF tc = <<>> THEN 0 ELSE tc[1] * 3600 + tc[2] * 60 + tc[3]

TcFrames(tc) == IF tc = <<>> THEN 0 ELSE tc[4]

\* to_srt_time(secs) of the second block for secs = ms/1000: the absolute
\* time secs + tl_start_sec, cut to whole milliseconds
AbsoluteMs(ms, tc, fps) ==
    (ms * fps[1] + TcWholeSeconds(tc) * 1000 * fps[1] + TcFrames(tc) * fps[2] * 1000)
        \div fps[1]

\* the milliseconds a subtitle timestamp HH:MM:SS,mmm stands for
FromSrtTime(t) == t[1] * 3600000 + t[2] * 60000 + t[3] * 1000 + t[4]

\* the frame the host gives an item at `ms`: the frame the time falls into, or
\* the one nearest to it
HostRoundings == {"floor", "nearest"}

HostFrame(ms, fps, rounding) ==
    IF rounding = "floor" THEN IntTrunc(ms * fps[1], 1000 * fps[2])
    ELSE RoundHalfEven(ms * fps[1], 1000 * fps[2])

\* int(tl_start_sec * fps) of _collect_subtitle_entries
ExportStartFrame(tc, fps) ==
    IntTrunc(TcWholeSeconds(tc) * fps[1] + TcFrames(tc) * fps[2], fps[2])

NoCodec == [kind |-> "none"]

CodecFrame == UNCHANGED <<episodeVars, resolverVars, placeVars, buildVars, syncVars, c_in>>

\* lines 2282-2298: the entry's time range is written
SrtWrite ==
    /\ c_pc = "timing"
    /\ c_out' = [from |-> ToSrtTime(AbsoluteMs(c_in.start, c_in.start_tc, c_in.fps)),
                 to   |-> ToSrtTime(AbsoluteMs(c_in.start + c_in.duration,
                                               c_in.start_tc, c_in.fps))]
    /\ c_pc' = "written"
    /\ CodecFrame

\* timeline.ImportIntoTimeline: the host turns the time range into an item
SrtHostImport ==
    /\ c_pc = "written"
    /\ \E rounding \in HostRoundings :
          LET f == HostFrame(FromSrtTime(c_out.from), c_in.fps, rounding)
              t == HostFrame(FromSrtTime(c_out.to), c_in.fps, rounding)
          IN  c_out' = [start_frame |-> f, dur_frame |-> t - f]
    /\ c_pc' = "on_timeline"
    /\ CodecFrame

\* lines 825-826 of _collect_subtitle_entries: rel_start_sec and dur_sec, kept
\* as frame counts (seconds times fps)
SrtReadBack ==
    /\ c_pc = "on_timeline"
    /\ c_out' = [rel_start_frames |->
                     c_out.start_frame - ExportStartFrame(c_in.start_tc, c_in.fps),
                 dur_frames |-> c_out.dur_frame]
    /\ c_pc' = "read"
    /\ CodecFrame

CodecIdle ==
    /\ c_pc = "idle"
    /\ c_in = NoCodec
    /\ c_out = NoCodec

\* ----------------------------------------------- subtitle text (tokens)
\* A text is a sequence of tokens: a take code (SC\d{2}T\d{2}) is one token,
\* every other token is one character.
TakeCodes  == {"SC02T05", "SC01T02", "SC03T01"}
TextTokens == {" ", "-", "x", "[", "]"} \cup TakeCodes

Least(S)    == CHOOSE x \in S : \A y \in S : x <= y
Greatest(S) == CHOOSE x \in S : \A y \in S : y <= x

\* the first index >= i of `text` that is not whitespace (Len + 1 if none)
SkipSpaces(text, i) ==
    LET stops == {j \in i..Len(text) : text[j] # " "}
    IN  IF stops = {} THEN Len(text) + 1 ELSE Least(stops)

IsToken(text, i, tok) == i <= Len(text) /\ text[i] = tok

\* the index of the take code of a match of  \[?\s*(SC\d{2}T\d{2})  that
\* begins at i, or 0 if there is none
CodeOfMatchAt(text, i) ==
    LET j == SkipSpaces(text, IF IsToken(text, i, "[") THEN i + 1 ELSE i)
    IN  IF j <= Len(text) /\ text[j] \in TakeCodes THEN j ELSE 0

\* the index behind a match of  \s*\]?\s*-?\s*  that begins at i
AfterSeparator(text, i) ==
    LET a == SkipSpaces(text, i)
        b == SkipSpaces(text, IF IsToken(text, a, "]") THEN a + 1 ELSE a)
    IN  SkipSpaces(text, IF IsToken(text, b, "-") THEN b + 1 ELSE b)

\* the removal that stops after the first match (count = 1)
RemoveMatches_FirstOnly(text) ==
    LET starts == {i \in 1..Len(text) : CodeOfMatchAt(text, i) # 0}
    IN  IF starts = {} THEN text
        ELSE LET i == Least(starts)
                 e == AfterSeparator(text, CodeOfMatchAt(text, i) + 1)
             IN  SubSeq(text, 1, i - 1) \o SubSeq(text, e, Len(text))

RECURSIVE RemoveFrom(_, _)
\* re.sub(pattern, "", content) from index i on: every match is removed
RemoveFrom(text, i) ==
    IF i > Len(text) THEN <<>>
    ELSE IF CodeOfMatchAt(text, i) # 0
         THEN RemoveFrom(text, AfterSeparator(text, CodeOfMatchAt(text, i) + 1))
         ELSE <<text[i]>> \o RemoveFrom(text, i + 1)

RemoveMatches(text) == RemoveFrom(text, 1)

\* str.strip()
Strip(text) ==
    LET keep == {j \in 1..Len(text) : text[j] # " "}
    IN  IF keep = {} THEN <<>>
        ELSE SubSeq(text, Least(keep), Greatest(keep))

\* _extract_take_and_visual: <<take, visual>>, the take "" if none was found
ExtractTakeAndVisual(content) ==
    LET codes == {j \in 1..Len(content) : content[j] \in TakeCodes}
    IN  IF codes = {} THEN <<"", Strip(content)>>
        ELSE <<content[Least(codes)], Strip(RemoveMatches(content))>>

\* subtitle_text = f"[{take}] {visual}" if visual else f"[{take}]"
SubtitleText(take, visual) ==
    IF visual = <<>> THEN <<"[", take, "]">> ELSE <<"[", take, "]", " ">> \o visual

\* line 1964: the text Build writes for the shot
TextWrite ==
    /\ c_pc = "text"
    /\ c_out' = [text |-> SubtitleText(c_in.take, c_in.visual)]
    /\ c_pc' = "texted"
    /\ CodecFrame

\* line 827: the text is parsed on export
TextParse ==
    /\ c_pc = "texted"
    /\ c_out' = [take   |-> ExtractTakeAndVisual(c_out.text)[1],
                 visual |-> ExtractTakeAndVisual(c_out.text)[2]]
    /\ c_pc' = "parsed"
    /\ CodecFrame

\* ------------------------------------------------------------ Push
\* take_to_shot: the raw indices (0-based) of the shots that carry `take`
ShotsWithTake(take) == {k \in 0..(Len(shots) - 1) : shots[k + 1].take = take}

\* take_to_shot[take]["idx"]: a later shot with the same take replaces an earlier
TakeIdx(take) == Greatest(ShotsWithTake(take))

\* (int(pos) - timeline_start_frame) / fps without the start frame taken off
PushStartSeconds_Absolute(pos, tsf, fps) == <<pos * fps[2], fps[1]>>

\* (int(pos) - timeline_start_frame) / fps, in seconds as <<numerator, denominator>>
PushStartSeconds(pos, tsf, fps) == <<(pos - tsf) * fps[2], fps[1]>>

PushStartFrame == TimecodeToFrames(u_cfg.start_tc, u_cfg.fps)

\* the index behind a match of  \s*\]?\s*  that begins at i
AfterBracket(text, i) ==
    LET a == SkipSpaces(text, i)
    IN  SkipSpaces(text, IF IsToken(text, a, "]") THEN a + 1 ELSE a)

RECURSIVE PushRemoveFrom(_, _)
\* re.sub(r"\[?\s*SC\d{2}T\d{2}\s*\]?\s*", "", content) from index i on
PushRemoveFrom(text, i) ==
    IF i > Len(text) THEN <<>>
    ELSE IF CodeOfMatchAt(text, i) # 0
         THEN PushRemoveFrom(text, AfterBracket(text, CodeOfMatchAt(text, i) + 1))
         ELSE <<text[i]>> \o PushRemoveFrom(text, i + 1)

\* the take code re.search finds in a text, "" if none
FirstTake(text) ==
    LET codes == {j \in 1..Len(text) : text[j] \in TakeCodes}
    IN  IF codes = {} THEN "" ELSE text[Least(codes)]

\* an absent field of an update
Absent == <<>>

PushFrame ==
    UNCHANGED <<episodeVars, resolverVars, placeVars, buildVars, codecVars, pullVars, moreVars,
                u_cfg, u_video, u_subtitle>>

\* lines 2572-2604: one item of a video track
PushScanVideoItem ==
    /\ u_pc = "video"
    /\ u_k < Len(u_video)
    /\ LET it == u_video[u_k + 1]
       IN  IF ShotsWithTake(it.take) = {}
           THEN UNCHANGED <<u_start_times, u_shots>>
           ELSE LET idx  == TakeIdx(it.take)
                    sh   == shots[idx + 1]
                    clip == ClipId(SegId, sh.id, idx)
                IN  /\ u_start_times' =
                          IF it.pos = Absent THEN u_start_times
                          ELSE [c \in DOMAIN u_start_times \cup {clip} |->
                                  IF c = clip
                                  THEN PushStartSeconds(it.pos[1], PushStartFrame, u_cfg.fps)
                                  ELSE u_start_times[c]]
                    /\ u_shots' = Append(u_shots,
                          [shot |-> sh.id, idx |-> idx,
                           duration    |-> <<it.dur>>,
                           videoOffset |-> IF it.in = 0 THEN Absent ELSE <<it.in>>,
                           visual      |-> Absent])
    /\ u_k' = u_k + 1
    /\ UNCHANGED <<u_pc, u_calls, u_log>>
    /\ PushFrame

\* line 2606: the video tracks are done, the subtitle tracks are next
PushVideoScanned ==
    /\ u_pc = "video"
    /\ u_k = Len(u_video)
    /\ u_pc' = "subtitle"
    /\ u_k' = 0
    /\ UNCHANGED <<u_start_times, u_shots, u_calls, u_log>>
    /\ PushFrame

\* lines 2616-2661: one item of a subtitle track
PushScanSubtitleItem ==
    /\ u_pc = "subtitle"
    /\ u_k < Len(u_subtitle)
    /\ LET content == u_subtitle[u_k + 1]
           take    == FirstTake(content)
       IN  IF content = <<>> \/ take = "" \/ ShotsWithTake(take) = {}
           THEN UNCHANGED <<u_shots, u_log>>
           ELSE LET idx        == TakeIdx(take)
                    sh         == shots[idx + 1]
                    new_visual == Strip(PushRemoveFrom(content, 1))
                IN  IF new_visual # <<>> /\ new_visual # Strip(sh.visual)
                    THEN /\ u_shots' = Append(u_shots,
                               [shot |-> sh.id, idx |-> idx, duration |-> Absent,
                                videoOffset |-> Absent, visual |-> <<new_visual>>])
                         /\ u_log' = Append(u_log, "text_changed")
                    ELSE /\ UNCHANGED u_shots
                         /\ u_log' = Append(u_log, "no_text_change")
    /\ u_k' = u_k + 1
    /\ UNCHANGED <<u_pc, u_start_times, u_calls>>
    /\ PushFrame

\* line 2663: the scans are done
PushSubtitlesScanned ==
    /\ u_pc = "subtitle"
    /\ u_k = Len(u_subtitle)
    /\ u_pc' = "bulk"
    /\ u_k' = 0
    /\ UNCHANGED <<u_start_times, u_shots, u_calls, u_log>>
    /\ PushFrame

\* the start-time map is sent whether or not it has an entry
HasStartTimes_Always == TRUE

\* `if updated_start_times:`
HasStartTimes == DOMAIN u_start_times # {}

\* lines 2664-2677: the bulk update, inside its own try
PushBulkUpdate ==
    /\ u_pc = "bulk"
    /\ IF HasStartTimes
       THEN \E ok \in BOOLEAN :
               /\ u_calls' = Append(u_calls,
                      [kind |-> "bulk", arg |-> u_start_times, ok |-> ok])
               /\ u_log' = Append(u_log, IF ok THEN "bulk_ok" ELSE "bulk_error")
       ELSE /\ UNCHANGED u_calls
            /\ u_log' = Append(u_log, "no_start_times")
    /\ u_pc' = "shots"
    /\ UNCHANGED <<u_k, u_start_times, u_shots>>
    /\ PushFrame

\* lines 2679-2682: one update_shot call; its error is caught by the worker's
\* handler at lines 2687-2688 only
PushShotUpdate ==
    /\ u_pc = "shots"
    /\ u_k < Len(u_shots)
    /\ \E ok \in BOOLEAN :
          /\ u_calls' = Append(u_calls,
                 [kind |-> "shot", arg |-> u_shots[u_k + 1], ok |-> ok])
          /\ IF ok
             THEN UNCHANGED <<u_pc, u_log>>
             ELSE u_pc' = "error" /\ u_log' = Append(u_log, "SYNC ERROR")
    /\ u_k' = u_k + 1
    /\ UNCHANGED <<u_start_times, u_shots>>
    /\ PushFrame

\* lines 2683-2686: the closing lines
PushComplete ==
    /\ u_pc = "shots"
    /\ u_k = Len(u_shots)
    /\ u_log' = (IF u_shots = <<>> THEN Append(u_log, "no_shot_changes") ELSE u_log)
                \o <<"complete">>
    /\ u_pc' = "done"
    /\ UNCHANGED <<u_k, u_start_times, u_shots, u_calls>>
    /\ PushFrame

PushIdle ==
    /\ u_pc = "idle"
    /\ u_cfg = [kind |-> "none"]
    /\ u_video = <<>>
    /\ u_subtitle = <<>>
    /\ u_k = 0
    /\ u_start_times = EmptyMap
    /\ u_shots = <<>>
    /\ u_calls = <<>>
    /\ u_log = <<>>

\* ------------------------------------------------ Pull: asset refresh
\* whether the name `media_pool` is bound where lines 2877 and 2902 use it:
\* the worker binds `_media_pool` (line 2718) and nothing else
MediaPoolBound == FALSE

PullFrame ==
    UNCHANGED <<episodeVars, resolverVars, placeVars, buildVars, codecVars, pushVars,
                moreVars, l_items>>

\* lines 2829-2914 for an item whose shot has a main asset URL: the file is
\* always downloaded; the replacement flag is set, and cleared again when the
\* import does not give an item or anything in the try raises
PullRefreshAsset ==
    /\ l_pc = "refresh"
    /\ l_items[l_k + 1].main
    /\ \E downloaded, imported \in BOOLEAN :
          l_done' = Append(l_done,
              [download |-> IF downloaded THEN "done" ELSE "failed",
               replace  |-> downloaded /\ MediaPoolBound /\ imported,
               new_item |-> downloaded /\ MediaPoolBound /\ imported])
    /\ l_pc' = "position"
    /\ UNCHANGED l_k
    /\ PullFrame

\* line 2829: the shot has no main asset URL
PullNoAsset ==
    /\ l_pc = "refresh"
    /\ ~l_items[l_k + 1].main
    /\ l_done' = Append(l_done,
          [download |-> "none", replace |-> FALSE, new_item |-> FALSE])
    /\ l_pc' = "position"
    /\ UNCHANGED l_k
    /\ PullFrame

\* lines 2916-3143: the item's position, duration and offset are brought up
\* to date; then the next item
PullReposition ==
    /\ l_pc = "position"
    /\ l_k' = l_k + 1
    /\ l_pc' = IF l_k + 1 < Len(l_items) THEN "refresh" ELSE "done"
    /\ UNCHANGED l_done
    /\ PullFrame

PullIdle ==
    /\ l_pc = "idle"
    /\ l_items = <<>>
    /\ l_k = 0
    /\ l_done = <<>>

\* ------------------------------------------- worker threads of the window
\* the operations that run in a worker thread against the host timeline
\* (lines 1852, 2494, 2693, 3153, 3323, 3716, 3972; Tk: 4660 .. 6445)
Operations ==
    {"build", "push", "pull", "export_av_script", "export_srt_video",
     "export_audio", "import_to_timeline"}

\* the buttons built enabled (lines 1621, 1623; Tk 4467, 4471); the others
\* are built disabled (lines 1609-1627; Tk 4451-4479)
EnabledAtStart == {"export_av_script", "export_srt_video"}

\* the buttons _load_episode enables (lines 1746-1750; Tk 4571-4575)
EnabledByLoad == {"build", "push", "pull", "export_audio", "import_to_timeline"}

\* the only worker that touches its own button: MainWindowTk.on_export_audio
\* disables it as its first statement (line 6250) and enables it again when
\* it ends (line 6441)
GatesItself(g, op) == g = "tk" /\ op = "export_audio"

RECURSIVE SumOver(_, _)
SumOver(f, S) ==
    IF S = {} THEN 0
    ELSE LET x == CHOOSE y \in S : TRUE IN f[x] + SumOver(f, S \ {x})

Threads == SumOver(w_started, Operations) + SumOver(w_running, Operations)

WorkerFrame ==
    UNCHANGED <<episodeVars, resolverVars, placeVars, buildVars, codecVars,
                pushVars, pullVars, cacheVars, binVars, openingVars, lateVars>>

\* on_test_load -> _load_episode, on the UI thread: the action buttons are
\* enabled, whatever is running
WLoadEpisode ==
    /\ w_enabled' = [op \in Operations |->
                        IF op \in EnabledByLoad THEN TRUE ELSE w_enabled[op]]
    /\ UNCHANGED <<w_started, w_running>>
    /\ WorkerFrame

\* a click on an enabled button: the handler defines worker() and starts a
\* daemon thread on it (e.g. line 2492); nothing is tested, nothing disabled
WClick(op) ==
    /\ w_enabled[op]
    /\ Threads < MaxThreads
    /\ w_started' = [w_started EXCEPT ![op] = @ + 1]
    /\ UNCHANGED <<w_enabled, w_running>>
    /\ WorkerFrame

\* the thread is scheduled and enters worker()
WorkerBegin(op) ==
    /\ w_started[op] > 0
    /\ w_started' = [w_started EXCEPT ![op] = @ - 1]
    /\ w_running' = [w_running EXCEPT ![op] = @ + 1]
    /\ w_enabled' = IF GatesItself(gui, op)
                    THEN [w_enabled EXCEPT ![op] = FALSE] ELSE w_enabled
    /\ WorkerFrame

\* worker() returns (after `Done` or after its except clause logged)
WorkerEnd(op) ==
    /\ w_running[op] > 0
    /\ w_running' = [w_running EXCEPT ![op] = @ - 1]
    /\ w_enabled' = IF GatesItself(gui, op)
                    THEN [w_enabled EXCEPT ![op] = TRUE] ELSE w_enabled
    /\ UNCHANGED w_started
    /\ WorkerFrame

WorkerIdle ==
    /\ w_enabled = [op \in Operations |-> FALSE]
    /\ w_started = [op \in Operations |-> 0]
    /\ w_running = [op \in Operations |-> 0]

\* --------------------------------------- Build: the download loop of a shot
CacheFrame ==
    UNCHANGED <<episodeVars, resolverVars, placeVars, buildVars, codecVars,
                pushVars, pullVars, workerVars, binVars, openingVars, lateVars,
                d_assets>>

\* the mutant of DestMissing: the cache is never consulted
DestMissing_Always(dest, disk) == TRUE

\* line 1937: `if not dest.exists()`
DestMissing(dest, disk) == dest \notin disk

\* lines 1936-1939, 1944: the destination does not exist, _download_file
\* writes it and the file joins local_files
CacheDownloaded ==
    /\ d_pc = "assets"
    /\ d_k < Len(d_assets)
    /\ DestMissing(d_assets[d_k + 1], d_disk)
    /\ d_downloads' = Append(d_downloads,
          [dest |-> d_assets[d_k + 1], existed |-> d_assets[d_k + 1] \in d_disk])
    /\ d_disk' = d_disk \cup {d_assets[d_k + 1]}
    /\ UNCHANGED d_partial
    /\ d_local' = Append(d_local, d_assets[d_k + 1])
    /\ d_k' = d_k + 1
    /\ UNCHANGED <<d_pc, d_at_start, d_run>>
    /\ CacheFrame

\* lines 1940-1943: _download_file raised; the asset is skipped (`continue`).
\* It raised before open(dest, "wb") (line 1032) or while copying, and then
\* a partial file stays at the destination
CacheDownloadFailed ==
    /\ d_pc = "assets"
    /\ d_k < Len(d_assets)
    /\ DestMissing(d_assets[d_k + 1], d_disk)
    /\ d_downloads' = Append(d_downloads,
          [dest |-> d_assets[d_k + 1], existed |-> d_assets[d_k + 1] \in d_disk])
    /\ \E partial \in BOOLEAN :
          /\ d_disk' = IF partial THEN d_disk \cup {d_assets[d_k + 1]} ELSE d_disk
          /\ d_partial' = IF partial THEN d_partial \cup {d_assets[d_k + 1]}
                                      ELSE d_partial
    /\ d_k' = d_k + 1
    /\ UNCHANGED <<d_pc, d_at_start, d_local, d_run>>
    /\ CacheFrame

\* lines 1936, 1944: the destination exists, nothing is downloaded and the
\* file joins local_files
CacheHit ==
    /\ d_pc = "assets"
    /\ d_k < Len(d_assets)
    /\ ~DestMissing(d_assets[d_k + 1], d_disk)
    /\ d_local' = Append(d_local, d_assets[d_k + 1])
    /\ d_k' = d_k + 1
    /\ UNCHANGED <<d_pc, d_disk, d_partial, d_at_start, d_downloads, d_run>>
    /\ CacheFrame

\* line 1949: local_files goes to resolve_import_files
CacheImport ==
    /\ d_pc = "assets"
    /\ d_k = Len(d_assets)
    /\ d_pc' = "imported"
    /\ UNCHANGED <<d_k, d_disk, d_partial, d_at_start, d_local, d_downloads, d_run>>
    /\ CacheFrame

\* Build is run again for the same shot; the files on disk stay
CacheBuildAgain ==
    /\ d_pc = "imported"
    /\ d_run < MaxRuns
    /\ d_run' = d_run + 1
    /\ d_pc' = "assets"
    /\ d_k' = 0
    /\ d_local' = <<>>
    /\ d_downloads' = <<>>
    /\ d_at_start' = d_disk
    /\ UNCHANGED <<d_disk, d_partial>>
    /\ CacheFrame

CacheIdle ==
    /\ d_pc = "idle"
    /\ d_assets = <<>>
    /\ d_k = 0
    /\ d_disk = {}
    /\ d_partial = {}
    /\ d_at_start = {}
    /\ d_local = <<>>
    /\ d_downloads = <<>>
    /\ d_run = 0

\* ----------------------------------------------------- resolve_ensure_bins
\* media_pool.GetRootFolder() (line 1086), and the None a failed
\* AddSubFolder returns
RootFolder == 0
NoFolder == -1

\* the mutant of FindOrCreate: the sub-folder list is not searched
FindOrCreate_NoSearch(folders, parent, name, fails) ==
    IF fails THEN [id |-> NoFolder, folders |-> folders]
    ELSE [id |-> Cardinality(folders) + 1,
          folders |-> folders \cup
              {[id |-> Cardinality(folders) + 1, parent |-> parent, name |-> name]}]

\* find_or_create (lines 1092-1096): the first sub-folder of `parent` with
\* the name, else media_pool.AddSubFolder(parent, name), which gives the new
\* folder or None
FindOrCreate(folders, parent, name, fails) ==
    LET found == {f \in folders : f.parent = parent /\ f.name = name}
    IN  IF found # {}
        THEN [id |-> (CHOOSE f \in found : \A g \in found : f.id <= g.id).id,
              folders |-> folders]
        ELSE IF fails THEN [id |-> NoFolder, folders |-> folders]
        ELSE [id |-> Cardinality(folders) + 1,
              folders |-> folders \cup
                  {[id |-> Cardinality(folders) + 1, parent |-> parent, name |-> name]}]

\* lines 1098-1101: the three levels. find_or_create on a parent that is
\* None raises (None has no GetSubFolderList); a None at the last level is
\* returned
EnsureBins(folders, root_name, segment_name, take_name, failAt) ==
    LET concepto == FindOrCreate(folders, RootFolder, root_name, failAt = 1)
        seg  == FindOrCreate(concepto.folders, concepto.id, segment_name, failAt = 2)
        take == FindOrCreate(seg.folders, seg.id, take_name, failAt = 3)
    IN  IF concepto.id = NoFolder
        THEN [kind |-> "raised", id |-> NoFolder, folders |-> concepto.folders]
        ELSE IF seg.id = NoFolder
        THEN [kind |-> "raised", id |-> NoFolder, folders |-> seg.folders]
        ELSE IF take.id = NoFolder
        THEN [kind |-> "none", id |-> NoFolder, folders |-> take.folders]
        ELSE [kind |-> "folder", id |-> take.id, folders |-> take.folders]

BinFrame ==
    UNCHANGED <<episodeVars, resolverVars, placeVars, buildVars, codecVars,
                pushVars, pullVars, workerVars, cacheVars, openingVars, lateVars>>

\* one call resolve_ensure_bins(media_pool, "CONCEPTO", seg_label, take)
\* (line 1948); failAt = 0: every AddSubFolder the call makes works
ResolveEnsureBins(segment_name, take_name, failAt) ==
    /\ Len(f_calls) < MaxBinCalls
    /\ LET r == EnsureBins(f_folders, "CONCEPTO", segment_name, take_name, failAt)
       IN  /\ f_folders' = r.folders
           /\ f_calls' = Append(f_calls,
                 [segment |-> segment_name, take |-> take_name,
                  kind |-> r.kind, id |-> r.id,
                  created |-> Cardinality(r.folders) - Cardinality(f_folders)])
    /\ BinFrame

BinIdle ==
    /\ f_folders = {}
    /\ f_calls = <<>>

\* ------------------------------ the opening statements of Build, Push, Pull
\* the statements each worker runs before its main loop, in source order:
\* Build lines 1855-1873, Push lines 2497-2510, Pull lines 2697-2721
Opening(op) ==
    CASE op = "build" -> <<"loaded", "context", "episode_dir", "segment">>
      [] op = "push"  -> <<"loaded", "context", "timeline", "segment">>
      [] op = "pull"  -> <<"loaded", "fetch", "segment", "context", "timeline">>

StepAfter(op, step) ==
    LET seq == Opening(op)
        i == CHOOSE k \in 1..Len(seq) : seq[k] = step
    IN  IF i < Len(seq) THEN seq[i + 1] ELSE "go"

OpeningFrame ==
    UNCHANGED <<episodeVars, resolverVars, placeVars, buildVars, codecVars,
                pushVars, pullVars, workerVars, cacheVars, binVars, lateVars,
                q_op, q_env>>

\* a statement that tests a precondition and raises RuntimeError when it
\* does not hold; the worker's handler logs the message
Require(step, holds) ==
    /\ IF holds
       THEN q_pc' = StepAfter(q_op, step) /\ UNCHANGED q_failed
       ELSE q_pc' = "aborted" /\ q_failed' = step
    /\ UNCHANGED q_effects
    /\ OpeningFrame

\* `if not self.episode or not self.selected_segment_id or not self.client`
\* (lines 1855, 2497, 2697)
OpenCheckLoaded ==
    /\ q_pc = "loaded"
    /\ Require("loaded", q_env.loaded)

\* resolve_get_context() (lines 1860, 2501, 2718): raises when no project is
\* open (lines 1069-1071)
OpenGetContext ==
    /\ q_pc = "context"
    /\ Require("context", q_env.project)

\* project.GetCurrentTimeline() and `if not timeline: raise` (lines
\* 2502-2504, 2719-2721)
OpenGetTimeline ==
    /\ q_pc = "timeline"
    /\ Require("timeline", q_env.timeline)

\* the selected segment is looked for among the episode's segments (lines
\* 1870-1873, 2507-2510, 2706-2709)
OpenFindSegment ==
    /\ q_pc = "segment"
    /\ Require("segment", q_env.segment)

\* Build, line 1866: episode_dir.mkdir(parents=True, exist_ok=True)
OpenMakeEpisodeDir ==
    /\ q_pc = "episode_dir"
    /\ q_effects' = IF q_env.dir_exists THEN q_effects
                    ELSE q_effects \cup {"directory_created"}
    /\ q_pc' = StepAfter(q_op, "episode_dir")
    /\ UNCHANGED q_failed
    /\ OpeningFrame

\* Pull, lines 2702-2703: ep = self.client.get_episode(...); self.episode = ep.
\* A failed request raises out of the worker
OpenFetchEpisode ==
    /\ q_pc = "fetch"
    /\ \/ /\ q_effects' = q_effects \cup {"service_call", "episode_replaced"}
          /\ q_pc' = StepAfter(q_op, "fetch")
          /\ UNCHANGED q_failed
       \/ /\ q_effects' = q_effects \cup {"service_call"}
          /\ q_pc' = "aborted"
          /\ q_failed' = "fetch"
    /\ OpeningFrame

OpeningIdle ==
    /\ q_op = "none"
    /\ q_env = [kind |-> "none"]
    /\ q_pc = "idle"
    /\ q_failed = "none"
    /\ q_effects = {}

\* --------------------------------------- Build: the main file of a shot
\* File names are sequences of tokens, so that `in` and endswith can be
\* computed: <<"SC01T01_", "MAIN", "_image", ".jpg">> is SC01T01_MAIN_image.jpg
ImageExts == {".jpg", ".jpeg", ".png", ".webp", ".gif"}

\* str.lower(): the one token with upper-case letters is MAIN (take codes
\* aside, which no test looks at)
LowerToken(tok) == IF tok = "MAIN" THEN "main" ELSE tok
Lower(name) == [i \in 1..Len(name) |-> LowerToken(name[i])]

\* `pattern in name` and name.endswith(ext)
Contains(name, pattern) ==
    \E i \in 1..(Len(name) - Len(pattern) + 1) :
        \A j \in 1..Len(pattern) : name[i + j - 1] = pattern[j]
EndsWith(name, ext) == name # <<>> /\ name[Len(name)] = ext

\* the first file of the list that passes the test, as a `for ... break`
\* finds it; <<>> when there is none
FirstThat(files, Test(_)) ==
    LET hits == {i \in 1..Len(files) : Test(files[i])}
    IN  IF hits = {} THEN <<>>
        ELSE files[CHOOSE i \in hits : \A j \in hits : i <= j]

\* line 1984
IsMainVideo(f) == EndsWith(f, ".mp4") /\ Contains(f, <<"MAIN", "_video">>)

\* lines 1992-1993: basename = os.path.basename(f).lower(), then
\* "MAIN_image" in basename and basename ends with an image extension
IsMainImage(f) ==
    Contains(Lower(f), <<"MAIN", "_image">>)
        /\ \E ext \in ImageExts : EndsWith(Lower(f), ext)

\* line 2003 and lines 2010-2011
IsMp4(f) == EndsWith(f, ".mp4")
IsImage(f) == \E ext \in ImageExts : EndsWith(Lower(f), ext)

\* lines 1981-2020: main_file and the log line of the step that set it
MainFile(has_video, has_image, local_files) ==
    LET exact_video == IF has_video THEN FirstThat(local_files, IsMainVideo) ELSE <<>>
        exact_image == IF has_image THEN FirstThat(local_files, IsMainImage) ELSE <<>>
        fallback ==
            IF has_video THEN FirstThat(local_files, IsMp4)
            ELSE IF has_image THEN FirstThat(local_files, IsImage)
            ELSE <<>>
        fallback_step == IF has_video THEN "fallback_video" ELSE "fallback_image"
    IN  IF exact_video # <<>> THEN [file |-> exact_video, step |-> "main_video"]
        ELSE IF exact_image # <<>> THEN [file |-> exact_image, step |-> "main_image"]
        ELSE IF fallback # <<>> THEN [file |-> fallback, step |-> fallback_step]
        ELSE IF local_files # <<>> THEN [file |-> local_files[1], step |-> "first_file"]
        ELSE [file |-> <<>>, step |-> "none"]

SelFrame ==
    UNCHANGED <<episodeVars, resolverVars, placeVars, buildVars, codecVars,
                pushVars, pullVars, workerVars, cacheVars, binVars, openingVars,
                audioVars, clientVars, importVars, tailVars, m_in>>

\* lines 1976-2020 for one shot that has a main URL
SelectMainFile ==
    /\ m_out = [kind |-> "none"]
    /\ m_in.has_video \/ m_in.has_image
    /\ LET r == MainFile(m_in.has_video, m_in.has_image, m_in.local_files)
       IN  m_out' = [kind |-> "chosen", file |-> r.file, step |-> r.step]
    /\ SelFrame

SelIdle ==
    /\ m_in = [kind |-> "none"]
    /\ m_out = [kind |-> "none"]

\* -------------------------------------- Build: the AV-Preview audio tracks
\* line 2411: audio_track_offset = 2
AudioTrackOffset == 2

\* the mutant of TargetAudioTrack: the tracks are counted from A1
TargetAudioTrack_FromOne(t_idx) == 1 + t_idx

\* line 2430: target_audio_track = audio_track_offset + t_idx
TargetAudioTrack(t_idx) == AudioTrackOffset + t_idx

\* the `current_a < wanted` loops (lines 2396-2408, 2414-2425, 2432-2443):
\* add_track("audio") until the count is reached; a host without a working
\* AddTrack keeps the tracks it has
EnsureAudioTracks(host, wanted) ==
    IF host.add_track /\ host.tracks < wanted
    THEN [host EXCEPT !.tracks = wanted]
    ELSE host

AudioFrame ==
    UNCHANGED <<episodeVars, resolverVars, placeVars, buildVars, codecVars,
                pushVars, pullVars, workerVars, cacheVars, binVars, openingVars,
                selVars, clientVars, importVars, tailVars, a_in>>

\* lines 2393-2425: there are audio tracks; the timeline gets as many audio
\* tracks as the service has, and at least A2
AudioBegin ==
    /\ a_pc = "begin"
    /\ a_host' = EnsureAudioTracks(EnsureAudioTracks(a_host, Len(a_in)),
                                   AudioTrackOffset)
    /\ a_pc' = IF Len(a_in) > 0 THEN "track" ELSE "done"
    /\ UNCHANGED <<a_out, a_t, a_c>>
    /\ AudioFrame

\* lines 2427-2443: the next service track; its host track is made sure of
AudioEnterTrack ==
    /\ a_pc = "track"
    /\ a_host' = EnsureAudioTracks(a_host, TargetAudioTrack(a_t))
    /\ a_c' = 0
    /\ a_pc' = "clips"
    /\ UNCHANGED <<a_out, a_t>>
    /\ AudioFrame

\* lines 2445-2457: the clip is not a dict, or no media-pool item has its
\* name: it is skipped
AudioSkipClip ==
    /\ a_pc = "clips"
    /\ a_c < Len(a_in[a_t + 1])
    /\ a_in[a_t + 1][a_c + 1] = "missing"
    /\ a_c' = a_c + 1
    /\ UNCHANGED <<a_out, a_pc, a_t, a_host>>
    /\ AudioFrame

\* lines 2458-2480: resolve_place_on_timeline is called for the clip with
\* track_index = target_audio_track and track_type = "audio"; when it raises
\* the failure is logged
AudioPlaceClip ==
    /\ a_pc = "clips"
    /\ a_c < Len(a_in[a_t + 1])
    /\ a_in[a_t + 1][a_c + 1] = "found"
    /\ \E raised \in BOOLEAN :
          a_out' = Append(a_out,
              [t_idx |-> a_t, c_idx |-> a_c, track_type |-> "audio",
               track_index |-> TargetAudioTrack(a_t), raised |-> raised])
    /\ a_c' = a_c + 1
    /\ UNCHANGED <<a_pc, a_t, a_host>>
    /\ AudioFrame

\* the clips of the track are done: the next track, or the end
AudioLeaveTrack ==
    /\ a_pc = "clips"
    /\ a_c = Len(a_in[a_t + 1])
    /\ a_t' = a_t + 1
    /\ a_pc' = IF a_t + 1 < Len(a_in) THEN "track" ELSE "done"
    /\ UNCHANGED <<a_out, a_c, a_host>>
    /\ AudioFrame

\* ---------------------- ConceptoAPIClient._make_request (3D-tool client)
\* for a body: whether response.json() gives a value, and whether that
\* value is a dict
Parses(body) == body \in {"object", "object_with_code", "list"}
IsDict(body) == body \in {"object", "object_with_code"}

\* the handler a failed response.json() ends in (api_client.py lines 49-83):
\* `except json.JSONDecodeError` next to the call when the error is of that
\* class, else the function's RequestException or Exception handler
DecodeFailure(error_class, near_code) ==
    CASE error_class = "json.JSONDecodeError" -> near_code
      [] error_class = "requests.RequestException" -> "NETWORK_ERROR"
      [] OTHER -> "UNEXPECTED_ERROR"

\* the (success, dict) pair of _make_request, api_client.py lines 18-86;
\* code = "" stands for a dict without a "code" key
MakeRequest(in) ==
    IF in.method \notin {"GET", "PUT", "POST"}
    THEN [success |-> FALSE, code |-> ""]
    ELSE IF in.transport = "request_exception"
    THEN [success |-> FALSE, code |-> "NETWORK_ERROR"]
    ELSE IF in.transport = "exception"
    THEN [success |-> FALSE, code |-> "UNEXPECTED_ERROR"]
    ELSE IF in.html
    THEN [success |-> FALSE, code |-> "INVALID_ENDPOINT"]
    ELSE IF in.status \in {200, 201}
    THEN IF Parses(in.body)
         THEN [success |-> TRUE, code |-> ""]
         ELSE [success |-> FALSE, code |-> DecodeFailure(in.error_class, "INVALID_JSON")]
    ELSE IF in.body = "empty"
    THEN [success |-> FALSE, code |-> "UNKNOWN_ERROR"]
    ELSE IF ~Parses(in.body)
    THEN [success |-> FALSE, code |-> DecodeFailure(in.error_class, "HTTP_ERROR")]
    ELSE IF ~IsDict(in.body)
    THEN [success |-> FALSE, code |-> "UNEXPECTED_ERROR"]
    ELSE IF in.body = "object_with_code"
    THEN [success |-> FALSE, code |-> in.server_code]
    ELSE [success |-> FALSE, code |-> "UNKNOWN_ERROR"]

ClientFrame ==
    UNCHANGED <<episodeVars, resolverVars, placeVars, buildVars, codecVars,
                pushVars, pullVars, workerVars, cacheVars, binVars, openingVars,
                selVars, audioVars, importVars, tailVars, h_in>>

\* one call of _make_request
ClientMakeRequest ==
    /\ h_out = [kind |-> "none"]
    /\ LET r == MakeRequest(h_in)
       IN  h_out' = [kind |-> "result", success |-> r.success, code |-> r.code]
    /\ ClientFrame

\* --------------------------------------- ConceptoClient.import_av_script
\* lines 380-383: the endpoints, in the order they are tried
ImportEndpoints == <<"/av-script/import", "/av-script">>

\* the status of a request that got no HTTP response (urlopen raised
\* something other than HTTPError, line 287)
NoResponse == 0

\* what _request_json returns for an answer (lines 276-288). `dict` tells
\* whether it is a dict; `error` is the text of its "error" member, "" when
\* it has none
RequestJson(answer) ==
    IF answer.status = NoResponse
    THEN [dict |-> TRUE, success |-> FALSE, error |-> "urlopen error"]
    ELSE IF answer.status = 200
    THEN CASE answer.body = "success"  -> [dict |-> TRUE, success |-> TRUE, error |-> ""]
           [] answer.body = "error"    -> [dict |-> TRUE, success |-> FALSE, error |-> "server message"]
           [] answer.body = "no_error" -> [dict |-> TRUE, success |-> FALSE, error |-> ""]
           [] answer.body = "list"     -> [dict |-> FALSE, success |-> FALSE, error |-> ""]
           [] OTHER -> [dict |-> TRUE, success |-> FALSE, error |-> "Expecting value"]
    ELSE \* urllib.error.HTTPError, e.code = answer.status
         LET http == IF answer.status = 405 THEN "HTTP 405" ELSE "HTTP 500"
         IN  CASE answer.body = "empty"    -> [dict |-> TRUE, success |-> FALSE, error |-> http]
               [] answer.body = "not_json" -> [dict |-> TRUE, success |-> FALSE, error |-> http]
               [] answer.body = "error"    -> [dict |-> TRUE, success |-> FALSE, error |-> "server message"]
               [] answer.body = "no_error" -> [dict |-> TRUE, success |-> FALSE, error |-> ""]
               [] answer.body = "list"     -> [dict |-> FALSE, success |-> FALSE, error |-> ""]
               [] OTHER -> [dict |-> TRUE, success |-> TRUE, error |-> ""]

\* line 394: last_error = payload.get("error", "Failed to import AV Script shots")
LastError(payload) ==
    IF payload.error = "" THEN "Failed to import AV Script shots" ELSE payload.error

\* line 397: str(last_error).startswith("HTTP 405"); of the texts above only
\* the one _request_json makes up for a 405 begins so
TriesNext(payload) ==
    IF payload.dict
    THEN LastError(payload) = "HTTP 405"
    ELSE FALSE  \* lines 401-405: payload.get raised, the text has no 405

ImportFrame ==
    UNCHANGED <<episodeVars, resolverVars, placeVars, buildVars, codecVars,
                pushVars, pullVars, workerVars, cacheVars, binVars, openingVars,
                selVars, audioVars, clientVars, tailVars, v_in>>

\* lines 386-393: the next endpoint answers with success: its data is returned
ImportSucceeds ==
    /\ v_out.pc = "try"
    /\ LET k == Len(v_out.calls) + 1
           payload == RequestJson(v_in[k])
       IN  /\ payload.dict /\ payload.success
           /\ v_out' = [pc |-> "returned", calls |-> Append(v_out.calls, ImportEndpoints[k]),
                        via |-> ImportEndpoints[k]]
    /\ ImportFrame

\* lines 394-399 and 401-405: the endpoint fails in a way that lets the
\* loop go on to the next endpoint, if there is one
ImportTriesNext ==
    /\ v_out.pc = "try"
    /\ LET k == Len(v_out.calls) + 1
           payload == RequestJson(v_in[k])
       IN  /\ ~(payload.dict /\ payload.success)
           /\ TriesNext(payload)
           /\ v_out' = [pc |-> IF k < Len(ImportEndpoints) THEN "try" ELSE "raised",
                        calls |-> Append(v_out.calls, ImportEndpoints[k]),
                        via |-> ""]
    /\ ImportFrame

\* lines 400, 406-409: any other failure ends the loop; RuntimeError
ImportGivesUp ==
    /\ v_out.pc = "try"
    /\ LET k == Len(v_out.calls) + 1
           payload == RequestJson(v_in[k])
       IN  /\ ~(payload.dict /\ payload.success)
           /\ ~TriesNext(payload)
           /\ v_out' = [pc |-> "raised", calls |-> Append(v_out.calls, ImportEndpoints[k]),
                        via |-> ""]
    /\ ImportFrame

\* ---------------------------------------------- Push as MainWindowTk runs it
\* lines 5281-5285: the start of an item at frame pos; an item before the
\* timeline's start frame is moved to it (relative_frame = 0)
TkStartSeconds(pos, tsf, fps) ==
    <<(IF pos - tsf < 0 THEN 0 ELSE pos - tsf) * fps[2], fps[1]>>

\* lines 5240-5321: one item of a video track
TkScanVideoItem ==
    /\ gui = "tk"
    /\ u_pc = "video"
    /\ u_k < Len(u_video)
    /\ LET it == u_video[u_k + 1]
       IN  IF ShotsWithTake(it.take) = {}
           THEN UNCHANGED <<u_start_times, u_shots>>
           ELSE LET idx  == TakeIdx(it.take)
                    sh   == shots[idx + 1]
                    clip == ClipId(SegId, sh.id, idx)
                IN  /\ u_start_times' =
                          IF it.pos = Absent THEN u_start_times
                          ELSE [c \in DOMAIN u_start_times \cup {clip} |->
                                  IF c = clip
                                  THEN TkStartSeconds(it.pos[1], PushStartFrame, u_cfg.fps)
                                  ELSE u_start_times[c]]
                    /\ u_shots' = Append(u_shots,
                          [shot |-> sh.id, idx |-> idx,
                           duration    |-> <<it.dur>>,
                           videoOffset |-> IF it.in = 0 THEN Absent ELSE <<it.in>>,
                           visual      |-> Absent])
    /\ u_k' = u_k + 1
    /\ UNCHANGED <<u_pc, u_calls, u_log>>
    /\ PushFrame

\* line 5322: after the video tracks the updates are pushed; MainWindowTk
\* does not read the subtitle tracks
TkVideoScanned ==
    /\ gui = "tk"
    /\ u_pc = "video"
    /\ u_k = Len(u_video)
    /\ u_pc' = "bulk"
    /\ u_k' = 0
    /\ UNCHANGED <<u_start_times, u_shots, u_calls, u_log>>
    /\ PushFrame

\* ------------------------------------------------ Pull: the item moves
\* A timeline item of the scanned video track: id names the clip, take is
\* the take code in its name ("" when the name has none), pos is what
\* GetStart() and its siblings give (Absent when none of them gives a value),
\* dur is GetDuration(), mp says whether GetMediaPoolItem() gives an item.

\* lines 2731-2747: timeline_start_frame
PullStartFrame == TimecodeToFrames(g_cfg.start_tc, g_cfg.fps)

\* video_clip_start_times.get(clip_id, 0.0)
PullConceptoStart_Default(clip) ==
    IF clip \in DOMAIN g_times THEN <<g_times[clip]>> ELSE <<<<0, 1>>>>

\* line 2798: video_clip_start_times.get(clip_id), None as Absent
PullConceptoStart(clip) ==
    IF clip \in DOMAIN g_times THEN <<g_times[clip]>> ELSE Absent

\* int(round(concepto_start_sec * fps)) with the start frame left out
PullTargetFrame_Relative(start, fps, tsf) ==
    RoundHalfEven(start[1] * fps[1], start[2] * fps[2])

\* line 2934: int(round(concepto_start_sec * fps)) + timeline_start_frame,
\* for the start <<numerator, denominator>> in seconds
PullTargetFrame(start, fps, tsf) ==
    RoundHalfEven(start[1] * fps[1], start[2] * fps[2]) + tsf

\* the position test with no tolerance
PullInPlace_Exact(pos, target) == pos = target

\* line 2948: abs(current_pos_frame - target_frame) <= 1
PullInPlace(pos, target) == Abs(pos - target) <= 1

\* the flag as it would be with the media pool at hand
PullNeedsReplacement_WhenDownloaded(main, downloaded, imported) ==
    main /\ downloaded

\* lines 2826-2914: needs_file_replacement, for a shot with (main) or without
\* a main asset URL; it is cleared when anything in the try raises or the
\* import gives no item
PullNeedsReplacement(main, downloaded, imported) ==
    main /\ downloaded /\ MediaPoolBound /\ imported

\* lines 2786-2791: the item's name carries a take code of the segment
PullMatched(it) == it.take # "" /\ ShotsWithTake(it.take) # {}

\* lines 2793-2795
PullClipId(it) ==
    LET idx == TakeIdx(it.take) IN ClipId(SegId, shots[idx + 1].id, idx)

PullCur == g_items[g_k + 1]

PullCurTarget ==
    PullTargetFrame(PullConceptoStart(PullClipId(PullCur))[1], g_cfg.fps, PullStartFrame)

\* what a host call can do; a host that honours every call gives "ok" only
HostOutcomes == IF g_host.exact THEN {"ok"} ELSE {"ok", "falsy", "raises"}

MoveFrame ==
    UNCHANGED <<episodeVars, resolverVars, placeVars, buildVars, codecVars,
                pushVars, pullVars, workerVars, cacheVars, binVars, openingVars,
                selVars, audioVars, clientVars, importVars,
                g_cfg, g_times, g_host>>

PullNextItem ==
    /\ g_k' = g_k + 1
    /\ g_pc' = "scan"

\* lines 2697-2759 and 3146-3149: one of the worker's preconditions raises
\* (no episode, no segment, no project, no timeline, no GetItemListInTrack);
\* the handler logs the error and its traceback
PullAborts ==
    /\ g_pc = "scan"
    /\ g_k = 0
    /\ g_pc' = "error"
    /\ g_log' = Append(g_log, "ERROR")
    /\ UNCHANGED <<g_items, g_track, g_k, g_cur, g_calls, g_run>>
    /\ MoveFrame

\* lines 2786-2791: no take code, or a take of no shot of the segment
PullSkipUnmatched ==
    /\ g_pc = "scan"
    /\ g_k < Len(g_items)
    /\ ~PullMatched(PullCur)
    /\ PullNextItem
    /\ UNCHANGED <<g_items, g_track, g_cur, g_calls, g_log, g_run>>
    /\ MoveFrame

\* lines 2916-2918: the shot has no start time in the service
PullSkipNoStart ==
    /\ g_pc = "scan"
    /\ g_k < Len(g_items)
    /\ PullMatched(PullCur)
    /\ PullConceptoStart(PullClipId(PullCur)) = Absent
    /\ PullNextItem
    /\ UNCHANGED <<g_items, g_track, g_cur, g_calls, g_log, g_run>>
    /\ MoveFrame

\* lines 2940-2951: the position is known, nothing is to be replaced and the
\* item is within a frame of its target
PullAlreadyInPlace ==
    /\ g_pc = "scan"
    /\ g_k < Len(g_items)
    /\ PullMatched(PullCur)
    /\ PullConceptoStart(PullClipId(PullCur)) # Absent
    /\ PullCur.pos # Absent
    /\ \E main, downloaded, imported \in BOOLEAN :
          /\ ~PullNeedsReplacement(main, downloaded, imported)
          /\ PullInPlace(PullCur.pos[1], PullCurTarget)
    /\ PullNextItem
    /\ UNCHANGED <<g_items, g_track, g_cur, g_calls, g_log, g_run>>
    /\ MoveFrame

\* lines 2940-2958: otherwise the item is to be updated
PullBeginMove ==
    /\ g_pc = "scan"
    /\ g_k < Len(g_items)
    /\ PullMatched(PullCur)
    /\ PullConceptoStart(PullClipId(PullCur)) # Absent
    /\ \E main, downloaded, imported \in BOOLEAN :
          LET replace == PullNeedsReplacement(main, downloaded, imported)
              stays   == IF PullCur.pos = Absent THEN FALSE
                         ELSE ~replace /\ PullInPlace(PullCur.pos[1], PullCurTarget)
          IN  /\ ~stays
              /\ g_cur' = [moved |-> FALSE, new_item |-> replace]
    /\ g_pc' = "method1"
    /\ UNCHANGED <<g_items, g_track, g_k, g_calls, g_log, g_run>>
    /\ MoveFrame

\* the track without the clip that `it` is
WithoutCur(track) == SelectSeq(track, LAMBDA x : ~(x.id = PullCur.id /\ x.pos = PullCur.pos))

\* a host call: what was called, for which item, with which frame, and
\* whether the host did it
PullCall(op, frame, out) ==
    [op |-> op, id |-> PullCur.id, take |-> PullCur.take,
     frame |-> frame, done |-> (out = "ok"), replace |-> g_cur.new_item]

\* lines 2965-3025: DeleteClipAtTrack at the item's frame, InsertClipAtTrack
\* at the target frame, and the insert at the old frame when that one raised
PullDeleteInsert ==
    /\ g_pc = "method1"
    /\ IF g_host.delins /\ PullCur.pos # Absent /\ (PullCur.mp \/ g_cur.new_item)
       THEN \E del, ins, res \in HostOutcomes :
              /\ ins # "raises" => res = "ok"
              /\ LET target   == PullCurTarget
                     deleted  == IF del = "ok" THEN WithoutCur(g_track) ELSE g_track
                     inserted == [PullCur EXCEPT !.pos = <<target>>, !.mp = TRUE]
                     restored == [PullCur EXCEPT !.mp = TRUE]
                     calls1   == <<PullCall("delete", PullCur.pos[1], del),
                                   PullCall("insert", target, ins)>>
                 IN  /\ g_track' = IF ins = "ok" THEN Append(deleted, inserted)
                                   ELSE IF ins = "raises" /\ res = "ok"
                                        THEN Append(deleted, restored)
                                        ELSE deleted
                     /\ g_calls' = g_calls \o calls1 \o
                                   (IF ins = "raises"
                                    THEN <<PullCall("restore", PullCur.pos[1], res)>>
                                    ELSE <<>>)
                     /\ g_cur' = [g_cur EXCEPT !.moved = (ins = "ok")]
                     /\ g_pc' = IF ins = "ok" THEN "retrim" ELSE "setters"
       ELSE /\ g_pc' = "setters"
            /\ UNCHANGED <<g_track, g_cur, g_calls>>
    /\ UNCHANGED <<g_items, g_k, g_log, g_run>>
    /\ MoveFrame

\* lines 3027-3055 and 3137-3138: SetProperty under the candidate names, then
\* the SetStart family, on the item object the scan holds
PullSetters ==
    /\ g_pc = "setters"
    /\ \E out \in HostOutcomes \ {"falsy"} :
          /\ g_calls' = Append(g_calls, PullCall("set", PullCurTarget, out))
          /\ IF out = "ok"
             THEN /\ g_track' = [i \in 1..Len(g_track) |->
                                   IF g_track[i].id = PullCur.id /\ g_track[i].pos = PullCur.pos
                                   THEN [g_track[i] EXCEPT !.pos = <<PullCurTarget>>]
                                   ELSE g_track[i]]
                  /\ g_cur' = [g_cur EXCEPT !.moved = TRUE]
                  /\ g_pc' = "retrim"
                  /\ UNCHANGED <<g_k, g_log>>
             ELSE /\ PullNextItem
                  /\ UNCHANGED <<g_track, g_cur, g_log>>
    /\ UNCHANGED <<g_items, g_run>>
    /\ MoveFrame

\* lines 3061-3089: update_it, as an index into the track (0: the item object
\* the scan holds, which the track may not hold any more). The host lists the
\* items of a track by frame; of two at one frame the moved one comes first.
PullUpdateIt ==
    LET near  == {i \in 1..Len(g_track) :
                    /\ g_track[i].take = PullCur.take
                    /\ g_track[i].pos # Absent
                    /\ Abs(g_track[i].pos[1] - PullCurTarget) <= 2}
        first == {i \in near : \A j \in near : g_track[i].pos[1] <= g_track[j].pos[1]}
        own   == {i \in first : g_track[i].id = PullCur.id}
    IN  IF near = {} THEN 0
        ELSE IF own # {} THEN Least(own) ELSE Least(first)

\* lines 3057-3136: after a move the duration is brought to the shot's
PullRetrim ==
    /\ g_pc = "retrim"
    /\ LET i      == PullUpdateIt
           sh     == shots[TakeIdx(PullCur.take) + 1]
           wanted == SecondsToFrames(RawDuration(sh), g_cfg.fps)
       IN  IF i # 0 /\ Abs(g_track[i].dur - wanted) > 1
           THEN /\ g_track' = [g_track EXCEPT ![i].dur = wanted]
                /\ g_calls' = Append(g_calls,
                      [PullCall("duration", wanted, "ok") EXCEPT !.id = g_track[i].id])
           ELSE UNCHANGED <<g_track, g_calls>>
    /\ PullNextItem
    /\ UNCHANGED <<g_items, g_cur, g_log, g_run>>
    /\ MoveFrame

\* lines 3144-3145: the closing lines
PullScanned ==
    /\ g_pc = "scan"
    /\ g_k = Len(g_items)
    /\ g_log' = Append(g_log, "complete")
    /\ g_pc' = "done"
    /\ UNCHANGED <<g_items, g_track, g_k, g_cur, g_calls, g_run>>
    /\ MoveFrame

\* lines 2695-2774: the button is pressed again; the worker reads the track
\* anew (followed for the host that honours every call)
PullAgain ==
    /\ g_pc = "done"
    /\ g_host.exact
    /\ g_run < MaxPullRuns
    /\ g_run' = g_run + 1
    /\ g_items' = g_track
    /\ g_k' = 0
    /\ g_pc' = "scan"
    /\ g_calls' = <<>>
    /\ UNCHANGED <<g_track, g_cur, g_log>>
    /\ MoveFrame

MoveIdle ==
    /\ g_pc = "idle"
    /\ g_cfg = [kind |-> "none"]
    /\ g_times = EmptyMap
    /\ g_host = [kind |-> "none"]
    /\ g_items = <<>>
    /\ g_track = <<>>
    /\ g_k = 0
    /\ g_cur = [moved |-> FALSE, new_item |-> FALSE]
    /\ g_calls = <<>>
    /\ g_log = <<>>
    /\ g_run = 0

\* ---------------------------------------------------- Pull right after Push
\* lines 2572-2604 under MainWindow, 5240-5321 under MainWindowTk
RoundScanVideoItem == IF gui = "tk" THEN TkScanVideoItem ELSE PushScanVideoItem

\* lines 2606 and 5322
RoundVideoScanned ==
    IF gui = "tk" THEN TkVideoScanned ELSE gui = "pyside" /\ PushVideoScanned

\* the video items Push scanned, as the track Pull reads: the same takes,
\* positions and durations, each with its media pool item
RoundTrack ==
    [k \in 1..Len(u_video) |->
        [id |-> k, take |-> u_video[k].take, pos |-> u_video[k].pos,
         dur |-> u_video[k].dur, mp |-> TRUE]]

\* lines 2693-2774 after a Push whose calls all succeeded: nothing was edited
\* on either side, so get_episode gives the start times Push sent (the
\* service held none before) and the track is the one Push scanned. The
\* shots' durations are read by Pull only after it has moved an item.
PullAfterPush ==
    /\ u_pc = "done"
    /\ g_pc = "idle"
    /\ \A n \in 1..Len(u_calls) : u_calls[n].ok
    /\ g_pc' = "scan"
    /\ g_cfg' = u_cfg
    /\ g_times' = u_start_times
    /\ \E h \in {[delins |-> TRUE, exact |-> TRUE], [delins |-> FALSE, exact |-> TRUE]} :
          g_host' = h
    /\ g_track' = RoundTrack
    /\ g_items' = RoundTrack
    /\ g_run' = 1
    /\ UNCHANGED <<g_k, g_cur, g_calls, g_log>>
    /\ UNCHANGED <<episodeVars, resolverVars, placeVars, buildVars, codecVars,
                   pushVars, pullVars, workerVars, cacheVars, binVars, openingVars,
                   selVars, audioVars, clientVars, importVars>>

\* the remaining groups of single-function specifications
AudioIdle ==
    /\ a_in = <<>>
    /\ a_out = <<>>
    /\ a_pc = "idle"
    /\ a_t = 0
    /\ a_c = 0
    /\ a_host = [tracks |-> 0, add_track |-> FALSE]

ClientIdle ==
    /\ h_in = [kind |-> "none"]
    /\ h_out = [kind |-> "none"]

ImportIdle ==
    /\ v_in = <<>>
    /\ v_out = [pc |-> "idle", calls |-> <<>>, via |-> ""]

\* the groups of the specifications on single functions, at rest
LateIdle ==
    /\ SelIdle
    /\ AudioIdle
    /\ ClientIdle
    /\ ImportIdle
    /\ MoveIdle

\* every variable group added after Pull, at rest
MoreIdle ==
    /\ WorkerIdle
    /\ CacheIdle
    /\ BinIdle
    /\ OpeningIdle
    /\ LateIdle

\* ------------------------------------------------------- placement inputs
RecordValues        == {-1000, 0, 5000}
PlaceDurationValues == {-1000, 0, 50, 100, 1000, 3000}
OffsetValues        == {-500, 0, 100, 1000, 2000}
FpsValues           == {<<24, 1>>, <<25, 1>>, <<2997, 125>>}
StartTcValues       == {<<>>, <<0, 0, 0, 0>>, <<1, 0, 0, 0>>, <<0, 0, 1, 12>>}
ClipProps ==
    {[kind |-> "none", tc |-> <<>>, ms |-> 0],
     [kind |-> "tc",   tc |-> <<0, 0, 0, 12>>, ms |-> 0],
     [kind |-> "tc",   tc |-> <<0, 0, 2, 0>>, ms |-> 0],
     [kind |-> "num",  tc |-> <<>>, ms |-> 0],
     [kind |-> "num",  tc |-> <<>>, ms |-> 500],
     [kind |-> "num",  tc |-> <<>>, ms |-> 1200 * 1000]}

PlaceInputs ==
    [record : RecordValues, duration : PlaceDurationValues, offset : OffsetValues,
     fps : FpsValues, start_tc : StartTcValues, clip_prop : ClipProps]

NoPlaceInput ==
    [record |-> 0, duration |-> 0, offset |-> 0, fps |-> <<24, 1>>,
     start_tc |-> <<>>, clip_prop |-> [kind |-> "none", tc |-> <<>>, ms |-> 0]]

PlaceIdle ==
    /\ p_in = NoPlaceInput
    /\ p_pc = "idle"
    /\ p_fr = NoFrames
    /\ LadderIdle

\* the inputs of the ladder's runs: scenario C, and a source shorter than 1 s
LadderInputs ==
    {in \in PlaceInputs :
        /\ in.fps = <<24, 1>> /\ in.start_tc = <<1, 0, 0, 0>>
        /\ \/ in.record = 5000 /\ in.duration = 0 /\ in.offset = 0
              /\ in.clip_prop.kind = "none"
           \/ in.record = 0 /\ in.duration = 1000 /\ in.offset = 1000
              /\ in.clip_prop = [kind |-> "tc", tc |-> <<0, 0, 0, 12>>, ms |-> 0]}

\* ------------------------------------------------------------ episode data
DurationValues == {<<>>, <<0>>, <<-1000>>, <<2000>>, <<3000>>}
OverrideValues == {1000, 10000}
OrderValues    == {0, 1}
MainValues     == {"none", "video"}

\* raw shot arrays: the shot at raw position k (0-based) has id k
\* shotNumber follows the raw position; `order` is the row key; `main` says
\* whether the shot has a videoUrl/imageUrl
ShotArrays(maxLen, durs, orders, mains) ==
    UNION {[1..n -> [duration : durs, order : orders, main : mains]] :
              n \in 1..maxLen}

WithIds(arr) ==
    [k \in 1..Len(arr) |->
        [id |-> k - 1, shotNumber |-> k, duration |-> arr[k].duration,
         order |-> arr[k].order, main |-> arr[k].main]]

RawClipIds(arr) == {ClipId(SegId, arr[k].id, k - 1) : k \in 1..Len(arr)}

OverrideMaps(arr) ==
    UNION {[d -> OverrideValues] : d \in SUBSET RawClipIds(arr)}

\* ---------------------------------------------------------- specifications
EpisodeNone ==
    /\ gui = "pyside"
    /\ shots = <<>>
    /\ overrides = EmptyMap

InitResolver ==
    /\ gui \in {"pyside", "tk"}
    /\ \E arr \in ShotArrays(MaxShots, DurationValues, {0}, {"video"}) :
          /\ shots = WithIds(arr)
          /\ overrides \in OverrideMaps(WithIds(arr))
    /\ ResolverIdle
    /\ PlaceIdle
    /\ BuildIdle
    /\ CodecIdle
    /\ PushIdle
    /\ PullIdle
    /\ MoreIdle

NextResolver == ComputeStep

SpecResolver == InitResolver /\ [][NextResolver]_vars

InitFrames ==
    /\ EpisodeNone
    /\ ResolverIdle
    /\ p_in \in PlaceInputs
    /\ p_pc = "entry"
    /\ p_fr = NoFrames
    /\ LadderIdle
    /\ BuildIdle
    /\ CodecIdle
    /\ PushIdle
    /\ PullIdle
    /\ MoreIdle

NextFrames == PlaceComputeFrames \/ PlaceClampToSource \/ PlaceFinalValidation

SpecFrames == InitFrames /\ [][NextFrames]_vars

InitPlace ==
    /\ EpisodeNone
    /\ ResolverIdle
    /\ p_in \in LadderInputs
    /\ p_pc = "entry"
    /\ p_fr = NoFrames
    /\ p_host \in HostCapabilities
    /\ p_attempt = 0
    /\ p_calls = <<>>
    /\ p_before = 0
    /\ p_won = ""
    /\ p_late = FALSE
    /\ trackN = 0
    /\ otherN = 0
    /\ BuildIdle
    /\ CodecIdle
    /\ PushIdle
    /\ PullIdle
    /\ MoreIdle

NextPlace ==
    \/ PlaceComputeFrames \/ PlaceClampToSource \/ PlaceFinalValidation
    \/ PlaceProbe \/ PlaceDictAttempt \/ PlaceInsertClip
    \/ PlaceInsertClips \/ PlaceTimelineAppend \/ PlaceSimpleAppend

SpecPlace == InitPlace /\ [][NextPlace]_vars

InitBuild ==
    /\ gui = "pyside"
    /\ \E arr \in ShotArrays(MaxBuildShots, {<<>>, <<2000>>}, OrderValues, MainValues) :
          /\ shots = WithIds(arr)
          /\ overrides \in
                UNION {[d -> {10000}] : d \in SUBSET RawClipIds(WithIds(arr))}
    /\ ResolverIdle
    /\ PlaceIdle
    /\ CodecIdle
    /\ PushIdle
    /\ PullIdle
    /\ MoreIdle
    /\ b_pc = "resolve"
    /\ b_sorted = <<>>
    /\ b_i = 0
    /\ b_local = {}
    /\ b_imported = 0
    /\ b_item = FALSE
    /\ b_queue = <<>>
    /\ b_log = <<>>
    /\ b_raised = {}
    /\ b_subs = <<>>
    /\ tl_items = <<>>

NextBuild ==
    \/ ComputeStep \/ BuildSort \/ BuildDownload \/ BuildEnsureBins
    \/ BuildImport \/ BuildQueueSubtitle \/ BuildFindMainItem \/ BuildPlace
    \/ BuildVerify \/ BuildSubtitles \/ BuildAudio

SpecBuild == InitBuild /\ [][NextBuild]_vars

SrtStartValues    == {0, 25, 40, 1000, 2500, 10010}
SrtDurationValues == {40, 1000, 3000, 3001}
SrtStartTcValues  == {<<>>, <<0, 0, 0, 0>>, <<0, 0, 1, 0>>, <<0, 0, 1, 12>>, <<0, 1, 0, 0>>}

InitSrt ==
    /\ EpisodeNone
    /\ ResolverIdle
    /\ PlaceIdle
    /\ BuildIdle
    /\ PushIdle
    /\ PullIdle
    /\ MoreIdle
    /\ c_pc = "timing"
    /\ c_in \in [start : SrtStartValues, duration : SrtDurationValues,
                 fps : FpsValues, start_tc : SrtStartTcValues]
    /\ c_out = NoCodec

NextSrt == SrtWrite \/ SrtHostImport \/ SrtReadBack

SpecSrt == InitSrt /\ [][NextSrt]_vars

MaxVisualLen == 3

\* the descriptions: every token sequence up to MaxVisualLen
VisualValues == UNION {[1..n -> TextTokens] : n \in 0..MaxVisualLen}

InitText ==
    /\ EpisodeNone
    /\ ResolverIdle
    /\ PlaceIdle
    /\ BuildIdle
    /\ PushIdle
    /\ PullIdle
    /\ MoreIdle
    /\ c_pc = "text"
    /\ c_in \in [take : TakeCodes, visual : VisualValues]
    /\ c_out = NoCodec

NextText == TextWrite \/ TextParse

SpecText == InitText /\ [][NextText]_vars

MaxPushShots == 2
MaxPushItems == 2
MaxPushSubs  == 1

PushShotTakes == {"SC03T01", "SC01T02"}

\* the segment's shots as Push reads them; the shot at raw position k has
\* id 100 + k
PushShotArrays ==
    UNION {[1..n -> [take : PushShotTakes, duration : {2000, 3000}]] :
              n \in 1..MaxPushShots}

PushShots(arr) ==
    [k \in 1..Len(arr) |->
        [id |-> 100 + k, take |-> arr[k].take, visual |-> <<"x">>,
         duration |-> <<arr[k].duration>>, videoOffset |-> 0]]

\* a video item: the take code in its name, GetStart(), GetDuration() and
\* the "In" property, in frames
VideoItems ==
    [take : TakeCodes, pos : {Absent, <<240>>, <<264>>}, dur : {48}, in : {0, 24}]

\* a subtitle item: its text
SubtitleItems ==
    {SubtitleText(t, v) : t \in TakeCodes, v \in {<<>>, <<"x">>, <<"x", "x">>}}

InitPush ==
    /\ gui = "pyside"
    /\ overrides = EmptyMap
    /\ \E arr \in PushShotArrays : shots = PushShots(arr)
    /\ ResolverIdle
    /\ PlaceIdle
    /\ BuildIdle
    /\ CodecIdle
    /\ PullIdle
    /\ MoreIdle
    /\ u_pc = "video"
    /\ u_cfg \in [fps : {<<24, 1>>}, start_tc : {<<>>, <<0, 0, 1, 0>>}]
    /\ u_video \in UNION {[1..n -> VideoItems] : n \in 0..MaxPushItems}
    /\ u_subtitle \in UNION {[1..n -> SubtitleItems] : n \in 0..MaxPushSubs}
    /\ u_k = 0
    /\ u_start_times = EmptyMap
    /\ u_shots = <<>>
    /\ u_calls = <<>>
    /\ u_log = <<>>

NextPush ==
    \/ PushScanVideoItem \/ PushVideoScanned \/ PushScanSubtitleItem
    \/ PushSubtitlesScanned \/ PushBulkUpdate \/ PushShotUpdate \/ PushComplete

SpecPush == InitPush /\ [][NextPush]_vars

MaxPullItems == 3

\* a matched item: whether its shot has a main asset URL, and whether the
\* item's file is the one at the expected path (current_file_matches)
PullItems == [main : BOOLEAN, cached : BOOLEAN]

InitPull ==
    /\ EpisodeNone
    /\ ResolverIdle
    /\ PlaceIdle
    /\ BuildIdle
    /\ CodecIdle
    /\ PushIdle
    /\ MoreIdle
    /\ l_pc = "refresh"
    /\ l_items \in UNION {[1..n -> PullItems] : n \in 1..MaxPullItems}
    /\ l_k = 0
    /\ l_done = <<>>

NextPull == PullRefreshAsset \/ PullNoAsset \/ PullReposition

SpecPull == InitPull /\ [][NextPull]_vars

\* ------------------------------------------------ a session of the window
InitWorkers ==
    /\ gui \in {"pyside", "tk"}
    /\ shots = <<>>
    /\ overrides = EmptyMap
    /\ ResolverIdle
    /\ PlaceIdle
    /\ BuildIdle
    /\ CodecIdle
    /\ PushIdle
    /\ PullIdle
    /\ CacheIdle
    /\ BinIdle
    /\ OpeningIdle
    /\ LateIdle
    /\ w_enabled = [op \in Operations |-> op \in EnabledAtStart]
    /\ w_started = [op \in Operations |-> 0]
    /\ w_running = [op \in Operations |-> 0]

NextWorkers ==
    \/ WLoadEpisode
    \/ \E op \in Operations : WClick(op)
    \/ \E op \in Operations : WorkerBegin(op)
    \/ \E op \in Operations : WorkerEnd(op)

SpecWorkers == InitWorkers /\ [][NextWorkers]_vars

\* --------------------------------------------- Build run again on one shot
\* the destination names _collect_take_assets gives a shot (lines 571-600)
DestNames == {"MAIN_video.mp4", "MAIN_image.jpg", "audio_1.mp3"}

InitCache ==
    /\ EpisodeNone
    /\ ResolverIdle
    /\ PlaceIdle
    /\ BuildIdle
    /\ CodecIdle
    /\ PushIdle
    /\ PullIdle
    /\ WorkerIdle
    /\ BinIdle
    /\ OpeningIdle
    /\ LateIdle
    /\ d_pc = "assets"
    /\ d_assets \in UNION {[1..n -> DestNames] : n \in 1..MaxAssets}
    /\ d_k = 0
    /\ d_disk \in SUBSET DestNames
    /\ d_partial = {}
    /\ d_at_start = d_disk
    /\ d_local = <<>>
    /\ d_downloads = <<>>
    /\ d_run = 1

NextCache ==
    \/ CacheDownloaded
    \/ CacheDownloadFailed
    \/ CacheHit
    \/ CacheImport
    \/ CacheBuildAgain

SpecCache == InitCache /\ [][NextCache]_vars

\* ------------------------------------------- a media pool and its folders
SegmentLabels == {"SC01_Opening", "SC02_Chase"}
TakeNames == {"SC01T01", "SC01T02"}

\* what the media pool holds before the first call: nothing, the root bin
\* of an earlier Build, or a segment bin below it
FolderTrees ==
    {{},
     {[id |-> 1, parent |-> RootFolder, name |-> "CONCEPTO"]},
     {[id |-> 1, parent |-> RootFolder, name |-> "CONCEPTO"],
      [id |-> 2, parent |-> 1, name |-> "SC01_Opening"]},
     {[id |-> 1, parent |-> RootFolder, name |-> "SC01T01"]}}

InitBins ==
    /\ EpisodeNone
    /\ ResolverIdle
    /\ PlaceIdle
    /\ BuildIdle
    /\ CodecIdle
    /\ PushIdle
    /\ PullIdle
    /\ WorkerIdle
    /\ CacheIdle
    /\ OpeningIdle
    /\ LateIdle
    /\ f_folders \in FolderTrees
    /\ f_calls = <<>>

NextBins ==
    \E seg \in SegmentLabels, take \in TakeNames, failAt \in 0..3 :
        ResolveEnsureBins(seg, take, failAt)

SpecBins == InitBins /\ [][NextBins]_vars

\* ------------------------------------------- a worker meets its conditions
OpeningEnvs ==
    [loaded : BOOLEAN, project : BOOLEAN, timeline : BOOLEAN, segment : BOOLEAN,
     dir_exists : BOOLEAN]

InitOpening ==
    /\ EpisodeNone
    /\ ResolverIdle
    /\ PlaceIdle
    /\ BuildIdle
    /\ CodecIdle
    /\ PushIdle
    /\ PullIdle
    /\ WorkerIdle
    /\ CacheIdle
    /\ BinIdle
    /\ LateIdle
    /\ q_op \in {"build", "push", "pull"}
    /\ q_env \in OpeningEnvs
    /\ q_pc = "loaded"
    /\ q_failed = "none"
    /\ q_effects = {}

NextOpening ==
    \/ OpenCheckLoaded
    \/ OpenGetContext
    \/ OpenGetTimeline
    \/ OpenFindSegment
    \/ OpenMakeEpisodeDir
    \/ OpenFetchEpisode

SpecOpening == InitOpening /\ [][NextOpening]_vars

\* --------------------------------------------- the local files of a shot
\* the files _collect_take_assets names for a take (lines 571-616), in the
\* order it lists them
MainVideoFile == <<"SC01T01_", "MAIN", "_video", ".mp4">>
MainImageFile == <<"SC01T01_", "MAIN", "_image", ".jpg">>
TakeFiles ==
    <<MainVideoFile,
      MainImageFile,
      <<"SC01T01_", "audio_narrator", ".mp3">>,
      <<"SC01T01_", "reference_image", ".jpg">>,
      <<"SC01T01_", "reference_video", ".mp4">>,
      <<"SC01T01_", "gen_image_1", ".jpg">>>>

\* the files of a subset of positions, in list order
RECURSIVE Kept(_, _)
Kept(files, keep) ==
    IF files = <<>> THEN <<>>
    ELSE LET rest == Kept(Tail(files), {i - 1 : i \in keep \ {1}})
         IN  IF 1 \in keep THEN <<Head(files)>> \o rest ELSE rest

\* local_files: the assets whose download worked; the main files are among
\* the assets only when the shot has the URL
MainInputs ==
    {[has_video |-> v, has_image |-> g, local_files |-> Kept(TakeFiles, keep)] :
        v \in BOOLEAN, g \in BOOLEAN, keep \in SUBSET (1..Len(TakeFiles))}

InitSel ==
    /\ EpisodeNone
    /\ ResolverIdle
    /\ PlaceIdle
    /\ BuildIdle
    /\ CodecIdle
    /\ PushIdle
    /\ PullIdle
    /\ WorkerIdle
    /\ CacheIdle
    /\ BinIdle
    /\ OpeningIdle
    /\ MoveIdle
    /\ AudioIdle
    /\ ClientIdle
    /\ ImportIdle
    /\ m_in \in MainInputs
    /\ m_in.has_video \/ m_in.has_image
    /\ ~m_in.has_video => \A i \in 1..Len(m_in.local_files) :
                             m_in.local_files[i] # MainVideoFile
    /\ ~m_in.has_image => \A i \in 1..Len(m_in.local_files) :
                             m_in.local_files[i] # MainImageFile
    /\ m_out = [kind |-> "none"]

NextSel == SelectMainFile

SpecSel == InitSel /\ [][NextSel]_vars

\* --------------------------------------------- the service's audio tracks
\* a clip is "found" when the audio bin has an item with its file name
AudioClipLists == UNION {[1..n -> {"found", "missing"}] : n \in 0..MaxAudioClips}
AudioTrackLists == UNION {[1..n -> AudioClipLists] : n \in 1..MaxAudioTracks}

InitAudio ==
    /\ EpisodeNone
    /\ ResolverIdle
    /\ PlaceIdle
    /\ BuildIdle
    /\ CodecIdle
    /\ PushIdle
    /\ PullIdle
    /\ WorkerIdle
    /\ CacheIdle
    /\ BinIdle
    /\ OpeningIdle
    /\ MoveIdle
    /\ SelIdle
    /\ ClientIdle
    /\ ImportIdle
    /\ a_in \in AudioTrackLists
    /\ a_out = <<>>
    /\ a_pc = "begin"
    /\ a_t = 0
    /\ a_c = 0
    /\ a_host \in [tracks : {1, 2}, add_track : BOOLEAN]

NextAudio ==
    \/ AudioBegin
    \/ AudioEnterTrack
    \/ AudioSkipClip
    \/ AudioPlaceClip
    \/ AudioLeaveTrack

SpecAudio == InitAudio /\ [][NextAudio]_vars

\* ------------------------------------------------ requests and responses
\* the methods the client's callers pass, and one it does not handle
RequestMethods == {"GET", "PUT", "POST", "DELETE"}
StatusCodes == {200, 201, 400, 404, 405, 500}
\* a response body: a JSON object (without or with a "code" member), a JSON
\* list, text that is not JSON, or nothing
ResponseBodies == {"object", "object_with_code", "list", "not_json", "empty"}
\* the "code" member of a JSON error body, when it has one
ServerCodes == {"NOT_FOUND", "HTTP_ERROR"}
\* the class of the error response.json() raises, which depends on the
\* installed requests and on whether simplejson is installed
JsonErrorClasses == {"json.JSONDecodeError", "requests.RequestException", "ValueError"}

ClientInputs ==
    [method : RequestMethods,
     transport : {"response", "request_exception", "exception"},
     status : StatusCodes,
     html : BOOLEAN,
     body : ResponseBodies,
     server_code : ServerCodes,
     error_class : JsonErrorClasses]

InitClient ==
    /\ EpisodeNone
    /\ ResolverIdle
    /\ PlaceIdle
    /\ BuildIdle
    /\ CodecIdle
    /\ PushIdle
    /\ PullIdle
    /\ WorkerIdle
    /\ CacheIdle
    /\ BinIdle
    /\ OpeningIdle
    /\ MoveIdle
    /\ SelIdle
    /\ AudioIdle
    /\ ImportIdle
    /\ h_in \in ClientInputs
    /\ h_out = [kind |-> "none"]

NextClient == ClientMakeRequest

SpecClient == InitClient /\ [][NextClient]_vars

\* ------------------------------------------- how the two endpoints answer
\* an answer: no response at all, or a status with a body; a body with
\* success = true comes with status 200 only
EndpointAnswers ==
    {[status |-> NoResponse, body |-> "empty"]}
    \cup [status : {200}, body : {"success", "error", "no_error", "list", "not_json", "empty"}]
    \cup [status : {405, 500}, body : {"error", "no_error", "list", "not_json", "empty"}]

InitImport ==
    /\ EpisodeNone
    /\ ResolverIdle
    /\ PlaceIdle
    /\ BuildIdle
    /\ CodecIdle
    /\ PushIdle
    /\ PullIdle
    /\ WorkerIdle
    /\ CacheIdle
    /\ BinIdle
    /\ OpeningIdle
    /\ MoveIdle
    /\ SelIdle
    /\ AudioIdle
    /\ ClientIdle
    /\ v_in \in [1..Len(ImportEndpoints) -> EndpointAnswers]
    /\ v_out = [pc |-> "try", calls |-> <<>>, via |-> ""]

NextImport == ImportSucceeds \/ ImportTriesNext \/ ImportGivesUp

SpecImport == InitImport /\ [][NextImport]_vars

\* ------------------------------------------------- Push under MainWindowTk
\* video items as in VideoItems, one of them before the timeline's start
TkVideoItems ==
    [take : TakeCodes, pos : {Absent, <<0>>, <<240>>}, dur : {48}, in : {0, 24}]

InitPushTk ==
    /\ gui = "tk"
    /\ overrides = EmptyMap
    /\ \E arr \in PushShotArrays : shots = PushShots(arr)
    /\ ResolverIdle
    /\ PlaceIdle
    /\ BuildIdle
    /\ CodecIdle
    /\ PullIdle
    /\ MoreIdle
    /\ u_pc = "video"
    /\ u_cfg \in [fps : {<<24, 1>>}, start_tc : {<<>>, <<0, 0, 1, 0>>}]
    /\ u_video \in UNION {[1..n -> TkVideoItems] : n \in 0..MaxPushItems}
    /\ u_subtitle \in UNION {[1..n -> SubtitleItems] : n \in 0..MaxPushSubs}
    /\ u_k = 0
    /\ u_start_times = EmptyMap
    /\ u_shots = <<>>
    /\ u_calls = <<>>
    /\ u_log = <<>>

NextPushTk ==
    \/ TkScanVideoItem \/ TkVideoScanned
    \/ PushBulkUpdate \/ PushShotUpdate \/ PushComplete

SpecPushTk == InitPushTk /\ [][NextPushTk]_vars

\* ------------------------------------------------- Pull: the item moves
\* the segment's shots as Pull reads them: the first take's shots last 2 s,
\* the other's 3 s
MoveShotArrays ==
    UNION {[1..n -> {[take |-> "SC03T01", duration |-> 2000],
                     [take |-> "SC01T02", duration |-> 3000]}] : n \in 1..MaxMoveShots}

\* the start times the service may hold, in seconds
MoveStartValues == {<<10, 1>>}

\* videoClipStartTimes: any of the segment's clips may have an entry
MoveStartMaps ==
    LET clips == {ClipId(SegId, shots[k].id, k - 1) : k \in 1..Len(shots)}
    IN  UNION {[c -> MoveStartValues] : c \in SUBSET clips}

\* the items of the track: a take of the segment, a take of another segment
\* or no take code, at a readable frame or not
MoveItemValues ==
    [take : {"SC03T01", "SC01T02", ""}, pos : {Absent, <<240>>, <<241>>},
     dur : {48}, mp : BOOLEAN]

MoveTracks ==
    UNION {{[i \in 1..n |-> [id |-> i, take |-> f[i].take, pos |-> f[i].pos,
                             dur |-> f[i].dur, mp |-> f[i].mp]] :
              f \in [1..n -> MoveItemValues]} : n \in 0..MaxMoveItems}

\* a host with or without DeleteClipAtTrack / InsertClipAtTrack that honours
\* every call, and one that has them and may fail any call
MoveHosts ==
    {[delins |-> TRUE, exact |-> TRUE], [delins |-> FALSE, exact |-> TRUE],
     [delins |-> TRUE, exact |-> FALSE]}

InitMove ==
    /\ gui = "pyside"
    /\ overrides = EmptyMap
    /\ \E arr \in MoveShotArrays : shots = PushShots(arr)
    /\ ResolverIdle
    /\ PlaceIdle
    /\ BuildIdle
    /\ CodecIdle
    /\ PushIdle
    /\ PullIdle
    /\ WorkerIdle
    /\ CacheIdle
    /\ BinIdle
    /\ OpeningIdle
    /\ SelIdle
    /\ AudioIdle
    /\ ClientIdle
    /\ ImportIdle
    /\ g_pc = "scan"
    /\ g_cfg \in [fps : {<<24, 1>>}, start_tc : {<<>>, <<0, 0, 1, 0>>}]
    /\ g_times \in MoveStartMaps
    /\ g_host \in MoveHosts
    /\ g_track \in MoveTracks
    /\ g_items = g_track
    /\ g_k = 0
    /\ g_cur = [moved |-> FALSE, new_item |-> FALSE]
    /\ g_calls = <<>>
    /\ g_log = <<>>
    /\ g_run = 1

NextMove ==
    \/ PullAborts \/ PullSkipUnmatched \/ PullSkipNoStart \/ PullAlreadyInPlace \/ PullBeginMove
    \/ PullDeleteInsert \/ PullSetters \/ PullRetrim \/ PullScanned \/ PullAgain

SpecMove == InitMove /\ [][NextMove]_vars

\* ------------------------------------- one worker thread, run to its end
\* One Build, Push or Pull worker runs; the thread is scheduled until its
\* function returns, every host and network call returning.
MaxOutcomeShots == 1
MaxOutcomeItems == 1

InitOutcome ==
    \/ InitBuild /\ Len(shots) <= MaxOutcomeShots
    \/ /\ InitPush
       /\ Len(shots) <= MaxOutcomeShots
       /\ Len(u_video) <= MaxOutcomeItems
       /\ u_subtitle # <<>> => (u_video = <<>> /\ u_cfg.start_tc = <<>>)
    \/ InitMove /\ Len(shots) <= MaxOutcomeShots /\ Len(g_track) <= MaxOutcomeItems

NextOutcome == NextBuild \/ NextPush \/ NextMove

SpecOutcome == InitOutcome /\ [][NextOutcome]_vars /\ WF_vars(NextOutcome)

\* ------------------------------------------ Push, then Pull, no edit between
MaxRoundShots == 1

InitRound ==
    /\ gui \in {"pyside", "tk"}
    /\ overrides = EmptyMap
    /\ \E arr \in PushShotArrays : Len(arr) <= MaxRoundShots /\ shots = PushShots(arr)
    /\ ResolverIdle
    /\ PlaceIdle
    /\ BuildIdle
    /\ CodecIdle
    /\ PullIdle
    /\ MoreIdle
    /\ u_pc = "video"
    /\ u_cfg \in [fps : {<<24, 1>>}, start_tc : {<<>>, <<0, 0, 1, 0>>}]
    /\ u_video \in UNION {[1..n -> TkVideoItems] : n \in 0..MaxPushItems}
    /\ u_subtitle \in UNION {[1..n -> SubtitleItems] : n \in 0..MaxPushSubs}
    /\ u_subtitle # <<>> => (gui = "pyside" /\ u_video = <<>>)
    /\ u_k = 0
    /\ u_start_times = EmptyMap
    /\ u_shots = <<>>
    /\ u_calls = <<>>
    /\ u_log = <<>>

NextRound ==
    \/ RoundScanVideoItem \/ RoundVideoScanned \/ PushScanSubtitleItem
    \/ PushSubtitlesScanned \/ PushBulkUpdate \/ PushShotUpdate \/ PushComplete
    \/ PullAfterPush
    \/ PullSkipUnmatched \/ PullSkipNoStart \/ PullAlreadyInPlace \/ PullBeginMove
    \/ PullDeleteInsert \/ PullSetters \/ PullRetrim \/ PullScanned

SpecRound == InitRound /\ [][NextRound]_vars

\* ------------------------------------------------- resolver: claims C1, C2
RawClip(k) == ClipId(SegId, shots[k + 1].id, k)

\* where the shot at raw index i ends: its resolved start plus its raw duration
EndOf(i) == start_times[RawClip(i)] + RawDuration(shots[i + 1])

SetMax(S) == CHOOSE m \in S : \A x \in S : m >= x

\* the furthest end among the shots before raw index k (0 when there is none)
FurthestEndBefore(k) == SetMax({0} \cup {EndOf(i) : i \in 0..(k - 1)})

\* C1: in both front ends, every resolved shot j that has no override starts
\* no earlier than start(i) + duration(i) of every shot i before it in raw
\* order.
C1_NoOverlapWithEarlierShots ==
    \A j \in 0..(r_idx - 1) :
        RawClip(j) \notin DOMAIN overrides =>
            \A i \in 0..(j - 1) : start_times[RawClip(j)] >= EndOf(i)

\* C2: in MainWindow, an overridden shot starts exactly at its override, any
\* other shot at the cursor, and the cursor after k shots is the maximum of
\* 0 and start + raw duration over those shots (missing/zero duration = 0);
\* [2.0 s, 3.0 s] resolves to {0.0, 2.0}, and to {0.0, 10.0} with the second
\* shot overridden to 10.0.
C2_OverrideExactCursorMax ==
    gui = "pyside" =>
        /\ current_end = FurthestEndBefore(r_idx)
        /\ \A j \in 0..(r_idx - 1) :
              start_times[RawClip(j)] =
                  IF RawClip(j) \in DOMAIN overrides
                  THEN overrides[RawClip(j)]
                  ELSE FurthestEndBefore(j)
        /\ \A k \in 1..Len(shots) :
              (r_idx >= k /\ shots[k].duration \in {<<>>, <<0>>}
                 /\ RawClip(k - 1) \notin DOMAIN overrides)
              => FurthestEndBefore(k) = FurthestEndBefore(k - 1)
        /\ (/\ r_idx = 2 /\ Len(shots) = 2
            /\ shots[1].duration = <<2000>> /\ shots[2].duration = <<3000>>
            /\ RawClip(0) \notin DOMAIN overrides)
           => /\ start_times[RawClip(0)] = 0
              /\ start_times[RawClip(1)] =
                    IF RawClip(1) \in DOMAIN overrides
                    THEN overrides[RawClip(1)] ELSE 2000

\* an override that lies before the cursor was used as given
C2_Witness ==
    /\ gui = "pyside"
    /\ r_idx = Len(shots)
    /\ \E j \in 0..(r_idx - 1) :
          /\ RawClip(j) \in DOMAIN overrides
          /\ overrides[RawClip(j)] < FurthestEndBefore(j)
          /\ start_times[RawClip(j)] = overrides[RawClip(j)]
    /\ \E k \in 1..Len(shots) : shots[k].duration = <<>>

\* ------------------------------------------ frame maths: claims C4, C5, C6
\* r is seconds * fps rounded to the nearest integer, a tie going to the even one
IsNearestFrame(r, ms, fps) ==
    LET gap == 2 * Abs(r * 1000 * fps[2] - ms * fps[1])
    IN  /\ gap <= 1000 * fps[2]
        /\ (gap = 1000 * fps[2] => r % 2 = 0)

NearbyFrames(ms, fps) ==
    LET q == (ms * fps[1]) \div (1000 * fps[2]) IN {q - 1, q, q + 1}

FramesComputed == p_pc \notin {"idle", "entry"}

SourceFrames == ClipDurationFrames(p_in.clip_prop, p_in.fps)

\* C4: the (start_frame, end_frame) pair handed to the host has
\* end_frame > start_frame, whatever the record/duration/offset input and
\* whether or not the source duration is known.
C4_FrameRangeValid ==
    p_pc \notin {"idle", "entry", "frames", "clamped"} =>
        /\ p_fr.end_frame > p_fr.start_frame
        /\ p_fr.end_frame - p_fr.start_frame >= 1
        /\ p_fr.start_frame >= 0

\* a non-positive duration, and a source so short that the clamp emptied the range
C4_Witness ==
    /\ p_pc = "final"
    /\ p_in.duration <= 0
    /\ SourceFrames # 0
    /\ SourceFrames <= FramesAfter(1, p_in).start_frame

\* C5 as stated: record_frame = round(record_seconds * fps) +
\* timeline_start_frame for every input.
C5_RecordFrameIsRoundPlusStart ==
    FramesComputed =>
        \E r \in NearbyFrames(p_in.record, p_in.fps) :
            /\ IsNearestFrame(r, p_in.record, p_in.fps)
            /\ p_fr.record_frame = r + TimecodeToFrames(p_in.start_tc, p_in.fps)

\* C5 as amended: record_frame = max(0, round(record_seconds * fps)) +
\* timeline_start_frame; start_frame = max(0, round(offset_seconds * fps));
\* a duration below 0.1 s is replaced by 1.0 s before duration_frames =
\* max(1, round(duration_seconds * fps)); record 5 s, duration 0, offset 0 at
\* 24 fps on a timeline starting at frame 86400 gives record_frame 86520 and
\* duration_frames >= 24.
C5_FrameArithmetic ==
    /\ FramesComputed =>
          \E r \in NearbyFrames(p_in.record, p_in.fps) :
              /\ IsNearestFrame(r, p_in.record, p_in.fps)
              /\ p_fr.record_frame =
                    Max(0, r) + TimecodeToFrames(p_in.start_tc, p_in.fps)
    /\ p_pc = "frames" =>
          LET dur == IF p_in.duration < 100 THEN 1000 ELSE p_in.duration
          IN  /\ \E r \in NearbyFrames(p_in.offset, p_in.fps) :
                    /\ IsNearestFrame(r, p_in.offset, p_in.fps)
                    /\ p_fr.start_frame = Max(0, r)
              /\ \E r \in NearbyFrames(dur, p_in.fps) :
                    /\ IsNearestFrame(r, dur, p_in.fps)
                    /\ p_fr.duration_frames = Max(1, r)
              /\ p_fr.end_frame = p_fr.start_frame + p_fr.duration_frames
    /\ (/\ FramesComputed
        /\ p_in.record = 5000 /\ p_in.duration = 0 /\ p_in.offset = 0
        /\ p_in.fps = <<24, 1>> /\ p_in.start_tc = <<1, 0, 0, 0>>)
       => /\ TimecodeToFrames(p_in.start_tc, p_in.fps) = 86400
          /\ p_fr.record_frame = 86520
          /\ p_fr.duration_frames >= 24

\* a negative record time and a duration below 0.1 s, both replaced
C5_Witness ==
    /\ p_pc = "frames"
    /\ p_in.record < 0
    /\ p_in.duration < 100
    /\ p_fr.record_frame = TimecodeToFrames(p_in.start_tc, p_in.fps)
    /\ p_fr.duration_frames = SecondsToFrames(1000, p_in.fps)

\* C6: when the source duration is known, the end_frame finally emitted
\* never exceeds it, also after the range was reset to start_frame = 0.
C6_EndFrameWithinSource ==
    (p_pc \notin {"idle", "entry", "frames"} /\ SourceFrames # 0) =>
        p_fr.end_frame <= SourceFrames

\* ------------------------------------------------ ladder: claims C7, C8
\* C7: resolve_place_on_timeline returns normally only if the number of
\* items on the target track after the host call is greater than before it.
C7_SuccessOnlyIfCountIncreased ==
    p_pc = "ok" => trackN > p_before

Rank(name) ==
    CASE name = "a" -> 1 [] name = "b" -> 2 [] name = "c" -> 3 [] OTHER -> 4

\* the strategies this host offers: (a) and (d) need MediaPool.AppendToTimeline,
\* (b) Timeline.InsertClip with a playhead and a file path, (c) Timeline.InsertClips
\* or Timeline.AppendToTimeline
AvailableStrategies ==
    (IF p_host.mp_append THEN {"a", "d"} ELSE {})
    \cup (IF p_host.insert_clip /\ p_host.set_tc /\ p_host.file_url THEN {"b"} ELSE {})
    \cup (IF p_host.tl_insert_clips \/ p_host.tl_append THEN {"c"} ELSE {})

Invoked == {p_calls[i] : i \in DOMAIN p_calls}

\* C8: the strategies run in the order (a), (b), (c), (d); none is invoked
\* after one succeeded; and the call raises only when every available
\* strategy was tried and failed.
C8_LadderPriorityOrder ==
    /\ \A i, j \in DOMAIN p_calls : i < j => Rank(p_calls[i]) <= Rank(p_calls[j])
    /\ ~p_late
    /\ p_pc = "raised" => AvailableStrategies \subseteq Invoked

\* ------------------------------------------------------------ Build claims
Logged(what, raw) == \E n \in 1..Len(b_log) : b_log[n] = <<what, raw>>

\* the position of the shot with raw index `raw` in sorted_shots (0-based)
Pos(raw) == CHOOSE i \in 0..(Len(b_sorted) - 1) : b_sorted[i + 1] = raw

\* C3: for every shot Build has looked up, the clip identity it used is
\* "<segmentId>-<shotId>-<raw index>", the identity is known to the resolver,
\* and the start Build got is the one the resolver computed for that shot
\* (never the 0.0 default), whatever the order/shotNumber keys are.
C3_BuildLooksUpByRawIndex ==
    \A k \in 1..Len(b_queue) :
        LET raw     == b_queue[k].raw
            rawClip == ClipId(SegId, shots[raw + 1].id, raw)
        IN  /\ b_queue[k].clip = rawClip
            /\ b_queue[k].found
            /\ b_queue[k].start = start_times[rawClip]

\* C9 (state part): a shot whose resolve_place_on_timeline call raised has its
\* failure logged, is never the shot whose error ended the worker, and the
\* loop goes on behind it: to its verification, then to the later shots or
\* to the steps after the loop.
C9_RaisedPlacementContained ==
    \A r \in b_raised :
        /\ Logged("place_failed", r)
        /\ ~Logged("ERROR", r)
        /\ \/ b_pc = "verify" /\ CurRaw = r
           \/ b_i > Pos(r)
           \/ b_pc \in {"subtitles", "audio", "done"}

\* C9 (step part): no step of Build, a failed placement included, changes or
\* removes an item that is already on the track.
C9_EarlierItemsKept ==
    \A k \in 1..Len(tl_items) :
        /\ Len(tl_items') >= k
        /\ tl_items'[k] = tl_items[k]

\* C9: if resolve_place_on_timeline fails for a shot, Build logs the failure,
\* goes on with the later shots, and leaves the items placed for earlier
\* shots exactly as they were.
C9_PlacementFailureTolerated ==
    /\ []C9_RaisedPlacementContained
    /\ [][C9_EarlierItemsKept]_vars

\* C9 witness: Build has finished; the placement of one shot raised, an item
\* of an earlier shot is still on the track, and a later shot was placed.
C9_Witness ==
    /\ b_pc = "done"
    /\ \E r \in b_raised :
          /\ \E k \in 1..Len(tl_items) : Pos(tl_items[k].shot) < Pos(r)
          /\ \E l \in 0..(Len(shots) - 1) : Pos(l) > Pos(r) /\ Logged("placed", l)

\* C10: no error raised while one shot is processed ends the worker: Build
\* never stops in its outer error handler, and when it is over every shot of
\* the segment has been processed and the steps after the loop have run.
C10_PerShotErrorsContained ==
    /\ b_pc # "error"
    /\ b_pc = "done" => Len(b_queue) = Len(shots)

\* ------------------------------------------------- Build: per-shot states
\* the shot has reached the lookup at lines 1959-1960
Queued(raw) == \E k \in 1..Len(b_queue) : b_queue[k].raw = raw

\* the state of the shot with raw index `raw`, read off the worker's position
\* and its log
ShotState(raw) ==
    IF b_sorted = <<>> THEN "PENDING"
    ELSE IF Logged("place_failed", raw) THEN "PLACEMENT_FAILED"
    ELSE IF Logged("verified", raw) THEN "VERIFIED"
    ELSE IF Logged("placed", raw) THEN "PLACED"
    ELSE IF Logged("placeholder", raw) THEN "PLACEHOLDER_ONLY"
    ELSE IF Queued(raw) THEN "BIN_IMPORTED"
    ELSE IF Pos(raw) = b_i /\ b_pc \in {"bins", "import", "queue", "error"}
         THEN IF b_pc = "queue" THEN "BIN_IMPORTED" ELSE "ASSETS_DOWNLOADED"
    ELSE "PENDING"

StateRank(st) ==
    CASE st = "PENDING"           -> 0
      [] st = "ASSETS_DOWNLOADED" -> 1
      [] st = "BIN_IMPORTED"      -> 2
      [] st \in {"PLACED", "PLACEHOLDER_ONLY"}    -> 3
      [] st \in {"VERIFIED", "PLACEMENT_FAILED"}  -> 4

RawIndices == 0..(Len(shots) - 1)

\* C11 (step part): a shot stays where it is or moves one stage forward; a
\* placement that raised takes it from BIN_IMPORTED to PLACEMENT_FAILED.
C11_MovesAlongTheChain ==
    \A raw \in RawIndices :
        \/ ShotState(raw)' = ShotState(raw)
        \/ StateRank(ShotState(raw)') = StateRank(ShotState(raw)) + 1
        \/ ShotState(raw) = "BIN_IMPORTED" /\ ShotState(raw)' = "PLACEMENT_FAILED"

\* C11 (state part): an item of a shot is on the track only after the shot's
\* import step, and never for a shot without main asset.
C11_PlacedOnlyAfterImport ==
    \A k \in 1..Len(tl_items) :
        /\ StateRank(ShotState(tl_items[k].shot)) >= 2
        /\ shots[tl_items[k].shot + 1].main # "none"

\* C11 (state part): when Build is over, every shot with a main asset is
\* VERIFIED or PLACEMENT_FAILED, every other shot PLACEHOLDER_ONLY.
C11_EndsInTerminalState ==
    b_pc \in {"done", "error"} =>
        \A raw \in RawIndices :
            IF shots[raw + 1].main = "none"
            THEN ShotState(raw) = "PLACEHOLDER_ONLY"
            ELSE ShotState(raw) \in {"VERIFIED", "PLACEMENT_FAILED"}

\* C11: every shot moves only along PENDING -> ASSETS_DOWNLOADED ->
\* BIN_IMPORTED -> (PLACED | PLACEHOLDER_ONLY) -> (VERIFIED | PLACEMENT_FAILED);
\* no shot is placed before its import, a shot without main asset is never
\* placed, and every shot with a main asset ends in VERIFIED or PLACEMENT_FAILED.
C11_ShotStateMachine ==
    /\ [][C11_MovesAlongTheChain]_vars
    /\ []C11_PlacedOnlyAfterImport
    /\ []C11_EndsInTerminalState

\* ------------------------------------------------------ Build: ordering
\* the iteration of the shot is over: one of its closing lines is logged
Finished(raw) ==
    \/ Logged("placeholder", raw)
    \/ Logged("no_item", raw)
    \/ Logged("verified", raw)
    \/ Logged("not_visible", raw)

\* nothing of the shot's iteration has happened yet
Untouched(raw) ==
    /\ ~Queued(raw)
    /\ \A n \in 1..Len(b_log) : b_log[n][2] # raw
    /\ \A k \in 1..Len(tl_items) : tl_items[k].shot # raw

\* C12: the shots are processed in non-decreasing (order, shotNumber) order,
\* one after the other: while a shot is being processed every shot before it
\* in that order has finished all its steps, its read-back included, and no
\* step of a later shot has started.
C12_RowKeyOrderSequential ==
    /\ \A i, j \in 1..Len(b_sorted) :
          i < j => ~RowKeyLess(shots, b_sorted[j], b_sorted[i])
    /\ \A k \in 1..Len(b_queue) : b_queue[k].raw = b_sorted[k]
    /\ \A i \in 1..Len(b_sorted) :
          /\ i - 1 < b_i => Finished(b_sorted[i])
          /\ i - 1 > b_i => Untouched(b_sorted[i])

\* C12 witness: Build is over for three shots whose row-key order is not the
\* raw order, the first processed one with a placement and its read-back.
C12_Witness ==
    /\ b_pc = "done"
    /\ Len(b_sorted) = 3
    /\ b_sorted # SortedShots_RawOrder(shots)
    /\ Logged("verified", b_sorted[1])
    /\ Finished(b_sorted[3])

\* -------------------------------------------------- Build: subtitle track
\* the entry Build should write for the shot with raw index `raw`
ExpectedEntry(raw) ==
    LET from == start_times[RawClip(raw)] + TimelineStartMs(BuildStartTc, BuildFps)
    IN  [raw |-> raw,
         from |-> ToSrtTime(from),
         to   |-> ToSrtTime(from + PlacedDuration(shots[raw + 1]))]

\* C13: once the shots are processed, the subtitle file is imported into the
\* timeline at most once, and the imported file has exactly one entry per
\* shot of the segment, whose times are the shot's resolved start and end
\* plus the timeline's start offset.
C13_OneAggregateSubtitleTrack ==
    b_pc \in {"audio", "done"} =>
        /\ Len(b_subs) <= 1
        /\ \A t \in 1..Len(b_subs) :
              /\ Len(b_subs[t]) = Len(shots)
              /\ \A raw \in RawIndices :
                    \E k \in 1..Len(b_subs[t]) : b_subs[t][k] = ExpectedEntry(raw)

\* ------------------------------------------------ subtitle timing round trip
\* |frames - ms * fps / 1000| <= 1
WithinOneFrame(frames, ms, fps) ==
    Abs(frames * 1000 * fps[2] - ms * fps[1]) <= 1000 * fps[2]

\* C14: an entry written with the import conversion and read back with the
\* export conversion has a relative start and a duration within one frame of
\* the ones written, for every start timecode and frame rate.
C14_TimingRoundTrip ==
    c_pc = "read" =>
        /\ WithinOneFrame(c_out.rel_start_frames, c_in.start, c_in.fps)
        /\ WithinOneFrame(c_out.dur_frames, c_in.duration, c_in.fps)

\* -------------------------------------------------- subtitle text round trip
\* C15: parsing the text Build writes for take code T and description d
\* gives back exactly (T, d), for every description.
C15_TextRoundTrip ==
    c_pc = "parsed" => (c_out.take = c_in.take /\ c_out.visual = c_in.visual)

\* -------------------------------------------------------------- Push claims
BulkCalls == {n \in 1..Len(u_calls) : u_calls[n].kind = "bulk"}
ShotCalls == {n \in 1..Len(u_calls) : u_calls[n].kind = "shot"}

\* the video item k carries a take of the segment and its position can be read
Matched(k) == ShotsWithTake(u_video[k].take) # {} /\ u_video[k].pos # Absent

MatchedItems == {k \in 1..Len(u_video) : Matched(k)}

\* the clip identity with the raw index of the shot the item k stands for
ItemClip(k) ==
    LET idx == TakeIdx(u_video[k].take)
    IN  ClipId(SegId, shots[idx + 1].id, idx)

\* (record frame - timeline start frame) / fps of the item k
ItemSeconds(k) ==
    <<(u_video[k].pos[1] - PushStartFrame) * u_cfg.fps[2], u_cfg.fps[1]>>

\* no later item carries the same take
LastOfItsTake(k) ==
    \A j \in MatchedItems : j > k => u_video[j].take # u_video[k].take

PushScanned == u_pc \in {"shots", "done", "error"}

\* C16 as stated: for every video item that carries a take of the segment,
\* the bulk call submits (record frame - timeline start frame) / fps of that
\* item under "<segmentId>-<shotId>-<raw index>".
C16_EveryItemStartPushed ==
    /\ (PushScanned /\ MatchedItems # {}) => BulkCalls # {}
    /\ \A n \in BulkCalls : \A k \in MatchedItems :
          /\ ItemClip(k) \in DOMAIN u_calls[n].arg
          /\ u_calls[n].arg[ItemClip(k)] = ItemSeconds(k)

\* C16 amended: the bulk call submits one start per take carried by the
\* video items, that of the last such item in scan order, under the clip
\* identity with the raw index of the take's shot, and nothing else.
C16_LastItemStartPushed ==
    /\ (PushScanned /\ MatchedItems # {}) => BulkCalls # {}
    /\ \A n \in BulkCalls :
          /\ DOMAIN u_calls[n].arg = {ItemClip(k) : k \in MatchedItems}
          /\ \A k \in MatchedItems :
                LastOfItsTake(k) => u_calls[n].arg[ItemClip(k)] = ItemSeconds(k)

\* C16 witness: on a 24 fps timeline without start offset two items carry
\* SC03T01, the last one at frame 240; the bulk call submits 10.0 s for it.
C16_Witness ==
    /\ BulkCalls # {}
    /\ u_cfg.start_tc = <<>>
    /\ Len(u_video) = 2
    /\ u_video[1].take = "SC03T01" /\ u_video[1].pos = <<264>>
    /\ u_video[2].take = "SC03T01" /\ u_video[2].pos = <<240>>
    /\ ShotsWithTake("SC03T01") # {}
    /\ \A n \in BulkCalls :
          u_calls[n].arg[ItemClip(2)][1] = 10 * u_calls[n].arg[ItemClip(2)][2]

\* no video item and no subtitle carries a take code of the segment
NothingRecognizable ==
    /\ \A k \in 1..Len(u_video) : ShotsWithTake(u_video[k].take) = {}
    /\ \A k \in 1..Len(u_subtitle) : \A j \in 1..Len(u_subtitle[k]) :
          ShotsWithTake(u_subtitle[k][j]) = {}

InLog(line) == \E n \in 1..Len(u_log) : u_log[n] = line

\* C17: when nothing on the timeline carries a take code of the segment,
\* Push makes no service call, does not end in its error handler, and ends
\* with the informational lines.
C17_NothingToSync ==
    NothingRecognizable =>
        /\ u_calls = <<>>
        /\ u_pc # "error"
        /\ u_pc = "done" =>
              (InLog("no_start_times") /\ InLog("no_shot_changes") /\ InLog("complete"))

\* C17 witness: Push is over on a timeline that has a video item and a
\* subtitle, none of them of the segment.
C17_Witness ==
    /\ NothingRecognizable
    /\ u_pc = "done"
    /\ u_video # <<>>
    /\ u_subtitle # <<>>

\* the update `u` holds a value that is not the service's value of the shot
UpdateDiffers(u) ==
    LET sh  == shots[u.idx + 1]
        fps == u_cfg.fps
    IN  \/ u.duration # Absent /\ u.duration[1] * 1000 * fps[2] # sh.duration[1] * fps[1]
        \/ u.videoOffset # Absent /\ u.videoOffset[1] * 1000 * fps[2] # sh.videoOffset * fps[1]
        \/ u.visual # Absent /\ u.visual[1] # sh.visual

\* C18: every per-shot update call carries a visual description, duration or
\* offset that differs from the service's value, and the start-time map goes
\* out in one bulk call.
C18_OnlyChangesSent ==
    /\ Cardinality(BulkCalls) <= 1
    /\ \A n \in ShotCalls : UpdateDiffers(u_calls[n].arg)

\* C19: when Push is over every collected per-shot update has been attempted,
\* whatever calls failed.
C19_EveryUpdateAttempted ==
    u_pc \in {"done", "error"} => Cardinality(ShotCalls) = Len(u_shots)

\* C20: for an item whose file is the one cached at the expected path, Pull
\* downloads nothing and replaces nothing.
C20_RefreshOnlyWhenDifferent ==
    \A k \in 1..Len(l_done) :
        (l_items[k].main /\ l_items[k].cached) =>
            (l_done[k].download = "none" /\ ~l_done[k].replace)


\* ---------------------------------------------------- workers: claim C21
\* C21: at any time at most one worker thread is inside worker(), over all
\* the operations that use the host timeline, and so at most one per
\* operation: a click while a worker runs starts no second one.
C21_WorkerMutualExclusion ==
    /\ SumOver(w_running, Operations) <= 1
    /\ \A op \in Operations : w_running[op] <= 1


\* --------------------------------------------- download cache: claim C22
Range(seq) == {seq[i] : i \in 1..Len(seq)}

\* C22: in Build an asset is downloaded only if its destination file does not
\* exist at that moment; a Build that begins with every destination file of
\* the shot present downloads nothing and still hands every one of the
\* shot's files, in asset order, to the bin import.
C22_DownloadCache ==
    /\ \A i \in 1..Len(d_downloads) : ~d_downloads[i].existed
    /\ Range(d_assets) \subseteq d_at_start => d_downloads = <<>>
    /\ (d_pc = "imported" /\ Range(d_assets) \subseteq d_at_start)
          => d_local = d_assets

\* C22 witness: a second Build of a shot whose files the first Build had to
\* download has reached the import with nothing downloaded.
C22_Witness ==
    /\ d_run = 2
    /\ d_pc = "imported"
    /\ Range(d_assets) \subseteq d_at_start
    /\ Cardinality(Range(d_assets)) >= 2
    /\ d_downloads = <<>>
    /\ d_local = d_assets


\* ------------------------------------------------ folder tree: claim C23
\* the folder with this id is the bin <root>/CONCEPTO/<segment>/<take>
IsLeafOf(id, segment, take) ==
    \E t \in f_folders, sg \in f_folders, c \in f_folders :
        /\ t.id = id /\ t.name = take /\ t.parent = sg.id
        /\ sg.name = segment /\ sg.parent = c.id
        /\ c.name = "CONCEPTO" /\ c.parent = RootFolder

\* C23: two resolve_ensure_bins calls with the same (root, segment label,
\* take) that return a folder return the same folder, the bin of that path,
\* and the later one creates nothing; after any sequence of calls no folder
\* holds two sub-folders with the same name.
C23_IdempotentBins ==
    /\ \A i, j \in 1..Len(f_calls) :
          (/\ i < j
           /\ f_calls[i].segment = f_calls[j].segment
           /\ f_calls[i].take = f_calls[j].take
           /\ f_calls[i].kind = "folder"
           /\ f_calls[j].kind = "folder")
          => /\ f_calls[i].id = f_calls[j].id
             /\ f_calls[j].created = 0
    /\ \A i \in 1..Len(f_calls) :
          f_calls[i].kind = "folder"
             => IsLeafOf(f_calls[i].id, f_calls[i].segment, f_calls[i].take)
    /\ \A f, g \in f_folders :
          (f.parent = g.parent /\ f.name = g.name) => f = g

\* C23 witness: a call created the three levels, and a later call with the
\* same arguments returned the same leaf.
C23_Witness ==
    \E i, j \in 1..Len(f_calls) :
        /\ i < j
        /\ f_calls[i].segment = f_calls[j].segment
        /\ f_calls[i].take = f_calls[j].take
        /\ f_calls[i].kind = "folder" /\ f_calls[i].created = 3
        /\ f_calls[j].kind = "folder" /\ f_calls[j].id = f_calls[i].id


\* ------------------------------------------ fatal preconditions: claim C24
FatalPreconditions == {"loaded", "context", "timeline", "segment"}

\* C24: when Build, Push or Pull raises on a fatal precondition (nothing
\* loaded, no project open, no timeline open, selected segment not found),
\* the worker has changed nothing: no directory created, no episode
\* replaced in memory, no service call issued.
C24_PreconditionsBeforeEffects ==
    (q_pc = "aborted" /\ q_failed \in FatalPreconditions) => q_effects = {}


\* ------------------------------------------- main-asset choice: claim C25
IsExact(name) == LET n == m_in.local_files IN \E i \in 1..Len(n) : n[i] = name

\* the file the stated order gives: the exact main video file, else the
\* exact main image file, else any video, else any image, else the first
PriorityChoice(files) ==
    LET video == FirstThat(files, LAMBDA f : EndsWith(f, ".mp4"))
        image == FirstThat(files, LAMBDA f : \E e \in ImageExts : EndsWith(f, e))
    IN  IF \E i \in 1..Len(files) : files[i] = MainVideoFile THEN MainVideoFile
        ELSE IF \E i \in 1..Len(files) : files[i] = MainImageFile THEN MainImageFile
        ELSE IF video # <<>> THEN video
        ELSE IF image # <<>> THEN image
        ELSE IF files # <<>> THEN files[1]
        ELSE <<>>

\* C25, the file: the main file Build chooses is the one the stated order
\* gives.
C25_ChosenFile ==
    m_out.kind = "chosen" => m_out.file = PriorityChoice(m_in.local_files)

\* C25, the step: a shot with only a main image whose <take>_MAIN_image file
\* is present gets that file from the exact-match step.
C25_ExactImageStep ==
    (/\ m_out.kind = "chosen"
     /\ ~m_in.has_video /\ m_in.has_image
     /\ IsExact(MainImageFile))
    => m_out.file = MainImageFile /\ m_out.step = "main_image"

\* C25: main-asset selection priority in Build, the chosen file and the
\* step that chooses it.
C25_MainAssetPriority == C25_ChosenFile /\ C25_ExactImageStep


TypedCodes ==
    {"INVALID_ENDPOINT", "INVALID_JSON", "HTTP_ERROR", "NETWORK_ERROR",
     "UNEXPECTED_ERROR"}

\* C27, success: _make_request reports success only for a 200/201 response
\* whose body parses as JSON.
C27_SuccessOnlyForJson ==
    (h_out.kind = "result" /\ h_out.success)
    => /\ h_in.transport = "response"
       /\ h_in.status \in {200, 201}
       /\ Parses(h_in.body)

\* C27: every failure result of _make_request carries one of the five typed
\* codes, and success is reported only for a 200/201 response with a
\* parseable JSON body.
C27_TypedServiceErrors ==
    /\ (h_out.kind = "result" /\ ~h_out.success) => h_out.code \in TypedCodes
    /\ C27_SuccessOnlyForJson


\* ----------------------------------------- AV-script import: claim C28
ImportEnded == v_out.pc \in {"returned", "raised"}
Answered(k) == v_in[k].status = 200 /\ v_in[k].body = "success"
TriedFallback == Len(v_out.calls) = 2

\* C28, the order: the first request goes to /av-script/import and the
\* second, if any, to /av-script.
C28_ImportEndpointFirst ==
    \A k \in 1..Len(v_out.calls) : v_out.calls[k] = ImportEndpoints[k]

\* C28, no needless fallback: the fallback is not tried after a success or
\* a failure other than HTTP 405 of the first endpoint.
C28_NoFallbackOtherwise ==
    (v_in # <<>> /\ v_in[1].status # 405) => ~TriedFallback

\* C28, the result: the call returns the data of the first endpoint tried
\* that answered with success, and raises when none did.
C28_ResultOfFirstSuccess ==
    ImportEnded =>
        IF \E k \in 1..Len(v_out.calls) : Answered(k)
        THEN /\ v_out.pc = "returned"
             /\ v_out.via = ImportEndpoints[
                   CHOOSE k \in 1..Len(v_out.calls) :
                       Answered(k) /\ \A j \in 1..(k - 1) : ~Answered(j)]
        ELSE v_out.pc = "raised"

\* C28, the fallback: whenever the first endpoint answers HTTP 405, with or
\* without a JSON error body, the fallback endpoint is tried.
C28_FallbackAfter405 ==
    (ImportEnded /\ v_in # <<>> /\ v_in[1].status = 405) => TriedFallback

\* C28: import_av_script tries /av-script/import first, the fallback exactly
\* after an HTTP 405 of the first, and returns the first success or raises.
C28_ImportFallback ==
    /\ C28_ImportEndpointFirst
    /\ C28_NoFallbackOtherwise
    /\ C28_ResultOfFirstSuccess
    /\ C28_FallbackAfter405


\* ------------------------------------ the two resolvers: claim C29
\* the whole loop of _compute_visual_start_times as front end g runs it, on
\* the episode of the state: from raw index k with the cursor and the
\* entries so far
RECURSIVE ResolveFrom(_, _, _, _)
ResolveFrom(g, k, cursor, acc) ==
    IF k >= Len(shots) THEN acc
    ELSE LET clip  == RawClip(k)
             start == ResolvedStart(overrides, clip, cursor)
         IN  ResolveFrom(g, k + 1,
                 Advance(g, cursor, start, RawDuration(shots[k + 1])),
                 [c \in DOMAIN acc \cup {clip} |-> IF c = clip THEN start ELSE acc[c]])

StartTimesOf(g) == ResolveFrom(g, 0, 0, EmptyMap)

\* C29: when the resolver of one front end has run, its clip-identity-to-
\* start mapping is the one the other front end's resolver gives for the
\* same segment, shots, durations and overrides.
C29_ResolversEquivalent ==
    r_idx = Len(shots) =>
        /\ start_times = StartTimesOf("pyside")
        /\ start_times = StartTimesOf("tk")


\* ------------------------------------ the two Push workers: claim C30
\* what MainWindow.on_sync has in updated_start_times after the video items
\* 1..n of the state (the loop of PushScanVideoItem)
RECURSIVE PySideStartTimes(_)
PySideStartTimes(n) ==
    IF n = 0 THEN EmptyMap
    ELSE LET before == PySideStartTimes(n - 1)
             it == u_video[n]
         IN  IF ShotsWithTake(it.take) = {} \/ it.pos = Absent THEN before
             ELSE LET idx  == TakeIdx(it.take)
                      clip == ClipId(SegId, shots[idx + 1].id, idx)
                  IN  [c \in DOMAIN before \cup {clip} |->
                          IF c = clip
                          THEN PushStartSeconds(it.pos[1], PushStartFrame, u_cfg.fps)
                          ELSE before[c]]

\* what MainWindow.on_sync has in updated_shots after the video items 1..n
RECURSIVE PySideVideoUpdates(_)
PySideVideoUpdates(n) ==
    IF n = 0 THEN <<>>
    ELSE LET before == PySideVideoUpdates(n - 1)
             it == u_video[n]
         IN  IF ShotsWithTake(it.take) = {} THEN before
             ELSE LET idx == TakeIdx(it.take)
                  IN  Append(before,
                        [shot |-> shots[idx + 1].id, idx |-> idx,
                         duration    |-> <<it.dur>>,
                         videoOffset |-> IF it.in = 0 THEN Absent ELSE <<it.in>>,
                         visual      |-> Absent])

\* and what the subtitle items 1..n add (the loop of PushScanSubtitleItem)
RECURSIVE PySideTextUpdates(_)
PySideTextUpdates(n) ==
    IF n = 0 THEN <<>>
    ELSE LET before  == PySideTextUpdates(n - 1)
             content == u_subtitle[n]
             take    == FirstTake(content)
         IN  IF content = <<>> \/ take = "" \/ ShotsWithTake(take) = {} THEN before
             ELSE LET idx        == TakeIdx(take)
                      sh         == shots[idx + 1]
                      new_visual == Strip(PushRemoveFrom(content, 1))
                  IN  IF new_visual # <<>> /\ new_visual # Strip(sh.visual)
                      THEN Append(before,
                             [shot |-> sh.id, idx |-> idx, duration |-> Absent,
                              videoOffset |-> Absent, visual |-> <<new_visual>>])
                      ELSE before

PySideUpdates ==
    PySideVideoUpdates(Len(u_video)) \o PySideTextUpdates(Len(u_subtitle))

\* C30, the start times: once its scan is over, the Push of the front end
\* that runs holds the start-time map MainWindow.on_sync builds from the
\* same episode and timeline.
C30_SameStartTimes ==
    PushScanned => u_start_times = PySideStartTimes(Len(u_video))

\* C30, the updates: and the same set of per-shot updates.
C30_SameShotUpdates ==
    PushScanned => Range(u_shots) = Range(PySideUpdates)

\* C30: MainWindowTk.on_sync submits the same start-time map and the same
\* set of per-shot updates as MainWindow.on_sync on the same episode and
\* timeline.
C30_PushEquivalent == C30_SameStartTimes /\ C30_SameShotUpdates


\* ------------------------------------------ Pull, the item moves: claim C31
\* the items of this Pull's scan that have been handled
Handled == {g_items[j] : j \in 1..g_k}

\* a handled item whose name carries a take of the segment and whose shot
\* has a start time in the service
HasOverride(it) ==
    /\ it.take # ""
    /\ \E k \in 1..Len(shots) : shots[k].take = it.take
    /\ \E k \in 1..Len(shots) :
          /\ shots[k].take = it.take
          /\ \A j \in (k + 1)..Len(shots) : shots[j].take # it.take
          /\ <<SegId, shots[k].id, k - 1>> \in DOMAIN g_times

\* round(start * fps) + timeline_start_frame for the item's shot
OverrideFrame(take) ==
    LET k     == CHOOSE k \in 1..Len(shots) :
                    /\ shots[k].take = take
                    /\ \A j \in (k + 1)..Len(shots) : shots[j].take # take
        start == g_times[<<SegId, shots[k].id, k - 1>>]
        tc    == g_cfg.start_tc
        tsf   == IF tc = <<>> THEN 0
                 ELSE ((tc[1] * 3600 + tc[2] * 60 + tc[3]) * g_cfg.fps[1]) \div g_cfg.fps[2] + tc[4]
    IN  RoundHalfEven(start[1] * g_cfg.fps[1], start[2] * g_cfg.fps[2]) + tsf

MoveOps == {"delete", "insert", "restore", "set"}

\* C31, the target: every insert and every setter call of Pull asks for the
\* frame round(start * fps) + timeline_start_frame of the item's shot.
C31_TargetFrame ==
    \A n \in 1..Len(g_calls) :
        g_calls[n].op \in {"insert", "set"} =>
            g_calls[n].frame = OverrideFrame(g_calls[n].take)

\* C31, in place: an item with an override that was read within one frame of
\* its target, with no replacement pending, is the subject of no call.
C31_InPlaceUntouched ==
    \A it \in Handled :
        (HasOverride(it) /\ it.pos # Absent /\ g_pc # "idle") =>
            (Abs(it.pos[1] - OverrideFrame(it.take)) <= 1 =>
                \A n \in 1..Len(g_calls) :
                    (g_calls[n].id = it.id /\ g_calls[n].op \in MoveOps)
                        => g_calls[n].replace)

\* C31, the order: a setter call for an item comes after the delete and the
\* insert for it whenever the host has both and the item's frame and media
\* pool item are known, and never after an insert that gave an item.
C31_DeleteInsertFirst ==
    \A n \in 1..Len(g_calls) :
        g_calls[n].op = "set" =>
            LET id == g_calls[n].id
                it == CHOOSE x \in Handled \cup {g_items[Min(g_k + 1, Len(g_items))]} : x.id = id
                before == {m \in 1..(n - 1) : g_calls[m].id = id}
            IN  /\ \A m \in before : g_calls[m].op = "insert" => ~g_calls[m].done
                /\ (g_host.delins /\ it.pos # Absent /\ it.mp) =>
                      /\ \E m \in before : g_calls[m].op = "delete"
                      /\ \E m \in before : g_calls[m].op = "insert"

\* C31: Pull's move rule: the target frame, the item in place left alone,
\* delete-then-reinsert before the property setters.
C31_PullMoveRule ==
    C31_TargetFrame /\ C31_InPlaceUntouched /\ C31_DeleteInsertFirst

\* C31's case: a Pull has ended in which an item away from its target was
\* deleted, the insert gave nothing and a setter then moved it.
C31_Witness ==
    /\ g_pc = "done"
    /\ \E n, m \in 1..Len(g_calls) :
          /\ m < n
          /\ g_calls[m].id = g_calls[n].id
          /\ g_calls[m].op = "insert" /\ ~g_calls[m].done
          /\ g_calls[n].op = "set" /\ g_calls[n].done


\* ------------------------------------------ Pull, the item moves: claim C32
\* C32, the calls: every call Pull makes that changes the timeline is for an
\* item whose name carries a take of the segment and whose shot has a start
\* time in the service.
C32_CallsOnlyForOverrides ==
    \A n \in 1..Len(g_calls) :
        /\ HasOverride([take |-> g_calls[n].take])
        /\ \A i \in 1..Len(g_items) :
              g_items[i].id = g_calls[n].id => g_items[i].take = g_calls[n].take

\* C32, the items: an item without a take code of the segment, or whose shot
\* has no start time in the service, is on the track as it was read: same
\* frame, same duration, same media.
C32_OthersKept ==
    \A i \in 1..Len(g_items) :
        ~HasOverride(g_items[i]) =>
            \E j \in 1..Len(g_track) : g_track[j] = g_items[i]

\* C32: Pull moves, retrims, deletes or replaces no item whose shot has no
\* start-time override and no item without a take code of the segment.
C32_PullFrameCondition == C32_CallsOnlyForOverrides /\ C32_OthersKept

\* C32's case: a Pull has ended that moved an item and passed by an item of
\* a shot without a start time and an item without a take of the segment.
C32_Witness ==
    /\ g_pc = "done"
    /\ \E n \in 1..Len(g_calls) : g_calls[n].op \in {"insert", "set"} /\ g_calls[n].done
    /\ \E it \in Handled :
          /\ ~HasOverride(it)
          /\ it.take # ""
          /\ \E k \in 1..Len(shots) : shots[k].take = it.take


\* --------------------------------------- the workers' outcome: claim C33
BuildEnded == b_pc \in {"done", "error"}
PushEnded  == u_pc \in {"done", "error"}
PullEnded  == g_pc \in {"done", "error"}
WorkerEnded == BuildEnded \/ PushEnded \/ PullEnded

LastLine(log) == IF log = <<>> THEN "" ELSE log[Len(log)]

\* C33, the outcome: when a Build, Push or Pull worker has returned, the last
\* line it logged is its completion line or its ERROR line.
C33_OutcomeLogged ==
    /\ BuildEnded => (b_log # <<>> /\ b_log[Len(b_log)][1] \in {"Done", "ERROR"})
    /\ PushEnded  => LastLine(u_log) \in {"complete", "SYNC ERROR"}
    /\ PullEnded  => LastLine(g_log) \in {"complete", "ERROR"}
    /\ b_pc = "done"  => b_log[Len(b_log)][1] = "Done"
    /\ b_pc = "error" => b_log[Len(b_log)][1] = "ERROR"
    /\ u_pc = "done"  => LastLine(u_log) = "complete"
    /\ u_pc = "error" => LastLine(u_log) = "SYNC ERROR"
    /\ g_pc = "done"  => LastLine(g_log) = "complete"
    /\ g_pc = "error" => LastLine(g_log) = "ERROR"

PushedStartMsTimesFps(frame) ==
    (frame - TimecodeToFrames(BuildStartTc, BuildFps)) * BuildFps[2] * 1000

\* C34: with every clip placed at the frame Build asked for, the start time
\* Push reads back for a placed shot and submits under the shot's clip
\* identity (segment, shot id, raw index) is the start time the resolver
\* computed for that shot.
C34_BuildThenPushKeepsStarts ==
    \A k \in 1..Len(tl_items) :
        LET raw  == tl_items[k].shot
            clip == <<SegId, shots[raw + 1].id, raw>>
        IN  /\ clip \in DOMAIN start_times
            /\ PushedStartMsTimesFps(tl_items[k].start) = start_times[clip] * BuildFps[1]


\* ------------------------------------------- complete cached files: claim C35
\* C35: every file Build hands to the import without downloading it in this
\* run (the destination existed) is a file that some download wrote to its
\* end; a download that failed part-way leaves no destination file that this
\* or a later Build takes for a cached one.
C35_CachedFilesComplete ==
    \A i \in 1..Len(d_local) : d_local[i] \notin d_partial


\* ------------------------------------------------- no clip lost: claim C36
\* C36: when Pull has ended, every take that had an item on the track when
\* the scan began still has an item on the track, whatever DeleteClipAtTrack
\* and InsertClipAtTrack returned (success, a falsy result or an exception).
C36_PullLosesNoClip ==
    g_pc = "done" =>
        \A i \in 1..Len(g_items) :
            \E j \in 1..Len(g_track) : g_track[j].take = g_items[i].take


C37_PushThenPullNoOp ==
    (u_pc = "done" /\ g_pc # "idle") =>
        /\ g_calls = <<>>
        /\ g_track = g_items


\* --------------------------------------------- at most one item: claim C39
\* C39: one call of resolve_place_on_timeline leaves at most one new item on
\* the timeline, all tracks counted, also when a strategy of the ladder
\* reported success without the target track's item count going up and the
\* ladder went on to later strategies.
C39_AtMostOnePlacement == trackN + otherN <= 1


\* ------------------------------------ subtitle and clip in Build: claim C40
\* the subtitle entry queued for the shot at raw position r
QueuedFor(r) == b_queue[CHOOSE k \in 1..Len(b_queue) : b_queue[k].raw = r]

\* C40, the start: for every item Build requested on video track 1, the
\* start written for its shot in the subtitle file is the start the clip was
\* requested at, the overlap shift included.
C40_SameStart ==
    \A k \in 1..Len(tl_items) :
        SecondsToFrames(QueuedFor(tl_items[k].shot).start, BuildFps)
            + TimecodeToFrames(BuildStartTc, BuildFps) = tl_items[k].start

\* C40, the range: no item Build requested overlaps an item that was on the
\* track before it.
C40_NoOverlap ==
    \A k, m \in 1..Len(tl_items) :
        k < m => (tl_items[m].end <= tl_items[k].start \/ tl_items[m].start >= tl_items[k].end)

\* C40: subtitle and clip agree in Build, and a shifted clip overlaps no
\* clip already on track 1.
C40_SubtitleAndClipAgree == C40_SameStart /\ C40_NoOverlap

====
